---- MODULE Spec2Model ----
(***************************************************************************)
(* Scene rescaling engine of generalizable-spatial-reasoning.              *)
(*                                                                         *)
(* The engine is a chain of command-line passes (src/src/main.py) that     *)
(* communicate only through JSON documents on disk: scene.json (original   *)
(* scene), new_scene.json, wall_list.json and asset_group_list.json.       *)
(* The state of the model is the content of these four files plus the      *)
(* position of main.py; every pass is an operator from the files to the    *)
(* files it leaves behind and its exit status.                             *)
(*                                                                         *)
(* Numbers.  Python floats are modelled as extended rationals <<n, d>>:    *)
(* d > 0 and gcd(n, d) = 1 for a finite value, <<1, 0>> for +inf,          *)
(* <<-1, 0>> for -inf and <<0, 0>> for nan.  Arithmetic is exact, that is, *)
(* floating-point rounding is not modelled.                                *)
(*                                                                         *)
(* Strings.  Object keys are sequences of one-character strings, so that   *)
(* startswith, "in", lower(), split and concatenation are computed as      *)
(* Python computes them.                                                   *)
(*                                                                         *)
(* Dictionaries.  A JSON object whose iteration order matters ("objects")  *)
(* is a sequence of [key, od] entries with distinct keys, in insertion     *)
(* order, as Python's dict and json.load/json.dump keep it.                *)
(***************************************************************************)
EXTENDS Integers, Sequences, FiniteSets, TLC

VARIABLES fs, last, pivot_seen, asked, runs, pc, running, started, failed, user

vars == <<fs, last, pivot_seen, asked, runs, pc, running, started, failed, user>>

-----------------------------------------------------------------------------
(* Bounds of the model *)

\* largest number of objects of the original scene
MaxObjs == 3
\* largest number of stand-alone pass invocations in one behaviour
MaxRuns == 3
\* largest number of objects of a scene of walls and wall parts
MaxWallObjs == 4
\* largest number of asset keys named by one grouping response
MaxMentions == 2

-----------------------------------------------------------------------------
(* Extended rationals *)

Abs(n) == IF n < 0 THEN -n ELSE n

Sgn(n) == IF n < 0 THEN -1 ELSE IF n > 0 THEN 1 ELSE 0

RECURSIVE Gcd(_, _)
Gcd(a, b) == IF b = 0 THEN a ELSE Gcd(b, a % b)

Norm(n, d) ==
    IF d = 0 THEN <<Sgn(n), 0>>
    ELSE LET g == Gcd(Abs(n), Abs(d))
             s == IF d < 0 THEN -1 ELSE 1
         IN  <<(s * n) \div g, (s * d) \div g>>

Q(n, d) == Norm(n, d)
R(n) == <<n, 1>>
NaN == <<0, 0>>
PosInf == <<1, 0>>
NegInf == <<-1, 0>>
IsFinite(a) == a[2] # 0
IsNaN(a) == a = NaN

FAdd(a, b) ==
    IF a[2] # 0 /\ b[2] # 0 THEN Norm(a[1] * b[2] + b[1] * a[2], a[2] * b[2])
    ELSE IF a[2] = 0 /\ b[2] = 0 THEN (IF a = b THEN a ELSE NaN)
    ELSE IF a[2] = 0 THEN a ELSE b

FNeg(a) == <<-a[1], a[2]>>

FSub(a, b) == FAdd(a, FNeg(b))

FMul(a, b) ==
    IF a[2] # 0 /\ b[2] # 0 THEN Norm(a[1] * b[1], a[2] * b[2])
    ELSE <<Sgn(a[1]) * Sgn(b[1]), 0>>

\* a / b for a finite b # 0 (Python raises ZeroDivisionError for b = 0: the
\* callers test for it)
FDiv(a, b) == Norm(a[1] * b[2], a[2] * b[1])

FLt(a, b) ==
    IF IsNaN(a) \/ IsNaN(b) THEN FALSE
    ELSE IF a[2] = 0 /\ b[2] = 0 THEN a[1] < b[1]
    ELSE a[1] * b[2] < b[1] * a[2]

FLe(a, b) == ~IsNaN(a) /\ ~IsNaN(b) /\ ~FLt(b, a)

Half == Q(1, 2)

-----------------------------------------------------------------------------
(* Strings as sequences of characters *)

LowerChar(c) ==
    CASE c = "R" -> "r"
      [] c = "W" -> "w"
      [] c = "S" -> "s"
      [] c = "L" -> "l"
      [] c = "G" -> "g"
      [] c = "X" -> "x"
      [] OTHER -> c

\* str.lower()
Lower(s) == [i \in 1..Len(s) |-> LowerChar(s[i])]

\* pat in s
Contains(s, pat) ==
    \E i \in 0..(Len(s) - Len(pat)) : SubSeq(s, i + 1, i + Len(pat)) = pat

\* s.startswith(p)
StartsWith(s, p) == Len(s) >= Len(p) /\ SubSeq(s, 1, Len(p)) = p

\* s.split(sep)[0]
SplitHead(s, sep) ==
    IF Contains(s, sep)
    THEN LET i == CHOOSE j \in 0..(Len(s) - Len(sep)) :
                     /\ SubSeq(s, j + 1, j + Len(sep)) = sep
                     /\ \A h \in 0..(j - 1) : SubSeq(s, h + 1, h + Len(sep)) # sep
         IN  SubSeq(s, 1, i)
    ELSE s

DigitChar(d) == <<"0", "1", "2", "3", "4", "5", "6", "7", "8", "9">>[d + 1]

\* str(n) of an integer n >= 0
RECURSIVE StrOfNat(_)
StrOfNat(n) == IF n < 10 THEN <<DigitChar(n)>>
               ELSE StrOfNat(n \div 10) \o <<DigitChar(n % 10)>>

s_room == <<"r", "o", "o", "m">>
s_floor == <<"f", "l", "o", "o", "r">>
s_scaled == <<"_", "s", "c", "a", "l", "e", "d">>
s_placed == <<"_", "p", "l", "a", "c", "e", "d">>
s_clone == <<"_", "c", "l", "o", "n", "e", "_">>
s_us == <<"_">>
s_dash == <<"-">>

-----------------------------------------------------------------------------
(* JSON objects and ordered dictionaries *)

\* d.get(f, dflt)
Get(d, f, dflt) == IF f \in DOMAIN d THEN d[f] ELSE dflt

Keys(objs) == {objs[i].key : i \in 1..Len(objs)}

HasKey(objs, k) == \E i \in 1..Len(objs) : objs[i].key = k

\* objs[k] for a key that is present
Lookup(objs, k) == objs[CHOOSE i \in 1..Len(objs) : objs[i].key = k].od

\* objs[k] = od: a new key is appended, a present key keeps its place
Put(objs, k, od) ==
    IF HasKey(objs, k)
    THEN [i \in 1..Len(objs) |-> IF objs[i].key = k THEN [key |-> k, od |-> od] ELSE objs[i]]
    ELSE Append(objs, [key |-> k, od |-> od])

\* doc["objects"] = objs, the other top-level fields kept
WithObjects(doc, objs) ==
    [f \in (DOMAIN doc) \cup {"objects"} |-> IF f = "objects" THEN objs ELSE doc[f]]

-----------------------------------------------------------------------------
(* Documents on disk *)

scene_json == "scene.json"
new_scene_json == "new_scene.json"
wall_list_json == "wall_list.json"
asset_group_list_json == "asset_group_list.json"

Paths == {scene_json, new_scene_json, wall_list_json, asset_group_list_json}

\* what open(path, 'r') finds before the file was ever written
NoSceneFile == [exists |-> FALSE, data |-> [objects |-> <<>>]]
NoListFile == [exists |-> FALSE, data |-> <<>>]

\* with open(path, 'w') as f: json.dump(data, f): the file now holds data
WriteFile(files, path, data) ==
    [p \in DOMAIN files |-> IF p = path THEN [exists |-> TRUE, data |-> data] ELSE files[p]]

\* result of a pass: exit status, the files it leaves, and (for the
\* observer) the pivot and the scale factor it computed before it ended
Result(ok, files, pivot, sf) == [ok |-> ok, files |-> files, pivot |-> pivot, sf |-> sf]

NoPivot == <<>>
NoFactor == <<>>

-----------------------------------------------------------------------------
(* The original scenes the model draws from *)

k_blend == s_room
k_Room1 == <<"r", "o", "o", "m", "-", "R", "o", "o", "m", "1">>
k_Room2 == <<"r", "o", "o", "m", "-", "R", "o", "o", "m", "2">>
k_Room3 == <<"R", "o", "o", "m", "3">>
k_Wall1 == <<"r", "o", "o", "m", "-", "W", "a", "l", "l", "1">>
k_Wall2 == <<"r", "o", "o", "m", "-", "W", "a", "l", "l", "2">>
k_Win1 == <<"r", "o", "o", "m", "-", "W", "i", "n", "1">>
k_Sofa == <<"r", "o", "o", "m", "-", "S", "o", "f", "a">>
k_Lamp == <<"L", "a", "m", "p">>
k_Rug == <<"r", "o", "o", "m", "-", "R", "u", "g">>
\* a key that no scene holds
k_Ghost == <<"G", "o", "n", "e">>

Zero3 == <<R(0), R(0), R(0)>>

Placement(pos) == [position |-> pos, rotation |-> Zero3, scale |-> R(1)]

Entry(k, od) == [key |-> k, od |-> od]

\* Records as process_foyr.py and get_asset_labels.py leave them (dimensions,
\* one placement, identifier and the label fields), and the degenerate
\* shapes the passes test for: fewer than two dimension components, no
\* placement, a position without Z.  The labels are independent of the keys:
\* two objects named as rooms carry no floor_description, and one object that
\* is no room carries one.
ObjectPool == <<
    Entry(k_Room1, [dimensions |-> <<R(3), R(4), R(1)>>,
                    placements |-> <<Placement(<<R(0), R(0), R(0)>>)>>,
                    identifier |-> k_Room1, floor_description |-> "wood"]),
    Entry(k_Room2, [dimensions |-> <<R(5), R(4)>>,
                    placements |-> <<Placement(<<R(3), R(0), R(0)>>)>>,
                    identifier |-> k_Room2]),
    Entry(k_Room3, [dimensions |-> <<R(2), R(2), R(1)>>,
                    placements |-> <<>>,
                    identifier |-> k_Room3]),
    Entry(k_Wall1, [dimensions |-> <<R(2), R(1), R(3)>>,
                    placements |-> <<Placement(<<R(0), R(0), R(2)>>)>>,
                    identifier |-> k_Wall1, wall_type |-> "solid_wall"]),
    Entry(k_Wall2, [dimensions |-> <<R(1), R(2), R(3)>>,
                    placements |-> <<Placement(<<Q(1, 20), R(0), R(0)>>)>>,
                    identifier |-> k_Wall2, wall_type |-> "door"]),
    Entry(k_Win1,  [dimensions |-> <<R(1), R(1), R(1)>>,
                    placements |-> <<Placement(<<R(1), R(0), Q(5, 2)>>)>>,
                    identifier |-> k_Win1, object_name |-> "window",
                    object_type |-> "wall_part"]),
    Entry(k_Sofa,  [dimensions |-> <<R(2), R(2), R(1)>>,
                    placements |-> <<Placement(<<R(4), R(4), R(1)>>)>>,
                    identifier |-> k_Sofa, object_name |-> "sofa",
                    object_type |-> "object"]),
    Entry(k_Lamp,  [dimensions |-> <<R(2), R(2)>>,
                    placements |-> <<Placement(<<R(0), R(0)>>)>>,
                    identifier |-> k_Lamp, object_name |-> "lamp",
                    object_type |-> "light_fixture"]),
    Entry(k_Rug,   [dimensions |-> <<R(1)>>,
                    placements |-> <<Placement(<<R(9), R(9), R(0)>>)>>,
                    identifier |-> k_Rug, object_name |-> "rug",
                    object_type |-> "object", floor_description |-> "carpet"]) >>

\* the entries of pool whose index is in idx, in pool order
RECURSIVE Pick(_, _, _)
Pick(pool, idx, i) ==
    IF i > Len(pool) THEN <<>>
    ELSE (IF i \in idx THEN <<pool[i]>> ELSE <<>>) \o Pick(pool, idx, i + 1)

\* a scene document without the top-level field "objects"
BareScene == [scene_id |-> k_blend]

\* a scene document: up to MaxObjs objects of the pool, in pool order, or a
\* document without "objects"
Scenes ==
    {[objects |-> Pick(ObjectPool, idx, 1)] :
        idx \in {x \in SUBSET (1..Len(ObjectPool)) : Cardinality(x) <= MaxObjs}}
      \cup {BareScene}

\* A second pool, for the wall grouper: three walls of which the third lies
\* within 0.1 of the first and of the second while these two are further
\* apart, a wall without placement, a wall that is also labelled as a floor,
\* and wall parts inside, near and far from the walls
k_WallA == <<"W", "a", "l", "l", "A">>
k_WallB == <<"W", "a", "l", "l", "B">>
k_WallC == <<"W", "a", "l", "l", "C">>
k_WallD == <<"W", "a", "l", "l", "D">>
k_WallE == <<"W", "a", "l", "l", "E">>
k_PartIn == <<"P", "a", "r", "t", "I", "n">>
k_PartNear == <<"P", "a", "r", "t", "N", "e", "a", "r">>
k_PartFar == <<"P", "a", "r", "t", "F", "a", "r">>
k_Shelf == <<"S", "h", "e", "l", "f">>

WallPool == <<
    Entry(k_WallA, [dimensions |-> <<R(2), R(1), R(3)>>,
                    placements |-> <<Placement(<<R(0), R(0), R(0)>>)>>,
                    identifier |-> k_WallA, wall_type |-> "solid_wall"]),
    Entry(k_WallB, [dimensions |-> <<R(1), R(2), R(3)>>,
                    placements |-> <<Placement(<<Q(3, 20), R(0), R(0)>>)>>,
                    identifier |-> k_WallB, wall_type |-> "door"]),
    Entry(k_WallC, [dimensions |-> <<R(1), R(1), R(3)>>,
                    placements |-> <<Placement(<<Q(2, 25), R(0), R(0)>>)>>,
                    identifier |-> k_WallC, wall_type |-> "window"]),
    Entry(k_WallD, [dimensions |-> <<R(1), R(1), R(3)>>,
                    placements |-> <<>>,
                    identifier |-> k_WallD, wall_type |-> "solid_wall"]),
    Entry(k_WallE, [dimensions |-> <<R(4), R(4), R(1)>>,
                    placements |-> <<Placement(<<R(0), R(0), R(0)>>)>>,
                    identifier |-> k_WallE, wall_type |-> "solid_wall",
                    floor_description |-> "wood"]),
    Entry(k_PartIn, [dimensions |-> <<R(1), R(1), R(1)>>,
                     placements |-> <<Placement(<<R(1), Q(1, 2), R(1)>>)>>,
                     identifier |-> k_PartIn, object_type |-> "wall_part"]),
    Entry(k_PartNear, [dimensions |-> <<R(1), R(1), R(1)>>,
                       placements |-> <<Placement(<<Q(9, 4), Q(1, 2), R(1)>>)>>,
                       identifier |-> k_PartNear, object_type |-> "wall_part"]),
    Entry(k_PartFar, [dimensions |-> <<R(1), R(1), R(1)>>,
                      placements |-> <<Placement(<<R(9), R(9), R(1)>>)>>,
                      identifier |-> k_PartFar, object_type |-> "wall_part"]),
    Entry(k_Shelf, [dimensions |-> <<R(1), R(1), R(1)>>,
                    placements |-> <<Placement(<<R(1), Q(1, 2), R(1)>>)>>,
                    identifier |-> k_Shelf, object_type |-> "object"]) >>

\* a scene document of walls and wall parts
WallScenes ==
    {[objects |-> Pick(WallPool, idx, 1)] :
        idx \in {x \in SUBSET (1..Len(WallPool)) : Cardinality(x) <= MaxWallObjs}}

\* the target sizes the user may type
NewXs == {R(8), R(16)}
NewYs == {R(8), R(10)}

\* the scale factors a pass may be started with from the command line
Factors == {R(1), R(2)}

-----------------------------------------------------------------------------
(* add_resized_floor.py *)

\* lines 45-71: the bounding box of all usable objects, then its centre
RECURSIVE floor_pivot_scan(_, _, _)
floor_pivot_scan(objects_dict, i, g) ==
    IF i > Len(objects_dict) THEN g
    ELSE LET od == objects_dict[i].od
             dims == Get(od, "dimensions", Zero3)
             pls == Get(od, "placements", <<>>)
         IN  IF Len(dims) < 2 THEN floor_pivot_scan(objects_dict, i + 1, g)
             ELSE IF Len(pls) = 0 THEN floor_pivot_scan(objects_dict, i + 1, g)
             ELSE LET px == pls[1].position[1]
                      py == pls[1].position[2]
                      x1 == px
                      x2 == FAdd(px, dims[1])
                      y1 == py
                      y2 == FAdd(py, dims[2])
                  IN  floor_pivot_scan(objects_dict, i + 1,
                         [gminx |-> IF FLt(x1, g.gminx) THEN x1 ELSE g.gminx,
                          gmaxx |-> IF FLt(g.gmaxx, x2) THEN x2 ELSE g.gmaxx,
                          gminy |-> IF FLt(y1, g.gminy) THEN y1 ELSE g.gminy,
                          gmaxy |-> IF FLt(g.gmaxy, y2) THEN y2 ELSE g.gmaxy])

EmptyBox == [gminx |-> PosInf, gmaxx |-> NegInf, gminy |-> PosInf, gmaxy |-> NegInf]

\* the lower corner of the box, for comparison with the centre
floor_pivot_at_corner(objects_dict) ==
    LET g == floor_pivot_scan(objects_dict, 1, EmptyBox)
    IN  <<g.gminx, g.gminy>>

floor_pivot(objects_dict) ==
    LET g == floor_pivot_scan(objects_dict, 1, EmptyBox)
    IN  <<FMul(Half, FAdd(g.gminx, g.gmaxx)), FMul(Half, FAdd(g.gminy, g.gmaxy))>>

\* lines 81-84: the key without the "<blend_name>-" prefix
floor_stripped(obj_key, blend_name) ==
    LET prefix == blend_name \o s_dash
    IN  IF StartsWith(obj_key, prefix)
        THEN SubSeq(obj_key, Len(prefix) + 1, Len(obj_key))
        ELSE obj_key

\* the test of line 86 applied to the whole key, prefix included
floor_is_room_unstripped(obj_key, blend_name) ==
    Contains(Lower(obj_key), s_room)

\* line 86
floor_is_room(obj_key, blend_name) ==
    Contains(Lower(floor_stripped(obj_key, blend_name)), s_room)

\* lines 79-110: the floors that are rescaled, in scene order
RECURSIVE floor_objs_of(_, _, _)
floor_objs_of(objects_dict, blend_name, i) ==
    IF i > Len(objects_dict) THEN <<>>
    ELSE LET obj_key == objects_dict[i].key
             od == objects_dict[i].od
             dims == Get(od, "dimensions", Zero3)
             pls == Get(od, "placements", <<>>)
             rest == floor_objs_of(objects_dict, blend_name, i + 1)
         IN  IF ~floor_is_room(obj_key, blend_name) THEN rest
             ELSE IF Len(dims) < 2 THEN rest
             ELSE IF Len(pls) = 0 THEN rest
             ELSE LET pos == pls[1].position
                  IN  <<[key |-> obj_key, details |-> od,
                         orig_w |-> dims[1], orig_l |-> dims[2],
                         orig_h |-> IF Len(dims) >= 3 THEN dims[3] ELSE R(0),
                         orig_px |-> pos[1], orig_py |-> pos[2],
                         orig_pz |-> IF Len(pos) >= 3 THEN pos[3] ELSE R(0)]>> \o rest

\* lines 98: sum_w
RECURSIVE floor_sum_w(_, _)
floor_sum_w(floor_objs, i) ==
    IF i > Len(floor_objs) THEN R(0)
    ELSE FAdd(floor_objs[i].orig_w, floor_sum_w(floor_objs, i + 1))

\* lines 112-115
floor_scale_factor(floor_objs, new_X) ==
    LET sum_w == floor_sum_w(floor_objs, 1)
    IN  IF FLt(R(0), sum_w) THEN FDiv(new_X, sum_w) ELSE R(1)

\* lines 145-149: the first free name among k_scaled, k_scaled_1, ...
RECURSIVE floor_probe(_, _, _)
floor_probe(new_objs, k, c) ==
    LET new_key == k \o s_scaled \o s_us \o StrOfNat(c)
    IN  IF HasKey(new_objs, new_key) THEN floor_probe(new_objs, k, c + 1) ELSE new_key

floor_new_key(new_objs, k) ==
    IF HasKey(new_objs, k \o s_scaled) THEN floor_probe(new_objs, k, 1) ELSE k \o s_scaled

\* a floor rescaler that would leave every floor at its original Z
floor_insert_unshifted(new_objs, fo, pivot, scale_factor) ==
    LET sw == FMul(fo.orig_w, scale_factor)
        sl == FMul(fo.orig_l, scale_factor)
        sh == FMul(fo.orig_h, scale_factor)
        new_px == FAdd(pivot[1], FMul(FSub(fo.orig_px, pivot[1]), scale_factor))
        new_py == FAdd(pivot[2], FMul(FSub(fo.orig_py, pivot[2]), scale_factor))
        new_key == floor_new_key(new_objs, fo.key)
        od == fo.details
        pl == od.placements[1]
        new_obj == [f \in (DOMAIN od) \cup {"identifier"} |->
                       IF f = "dimensions"
                       THEN <<sw, sl, sh>> \o SubSeq(od.dimensions, 4, Len(od.dimensions))
                       ELSE IF f = "placements"
                            THEN <<[pl EXCEPT !.position = <<new_px, new_py, fo.orig_pz>>,
                                              !.scale = scale_factor]>>
                                   \o SubSeq(od.placements, 2, Len(od.placements))
                       ELSE IF f = "identifier" THEN new_key
                       ELSE od[f]]
    IN  Put(new_objs, new_key, new_obj)

\* lines 120-173: one floor, copied, scaled and stored
floor_insert(new_objs, fo, pivot, scale_factor) ==
    LET sw == FMul(fo.orig_w, scale_factor)
        sl == FMul(fo.orig_l, scale_factor)
        sh == FMul(fo.orig_h, scale_factor)
        offset_z == FSub(sh, fo.orig_h)
        new_px == FAdd(pivot[1], FMul(FSub(fo.orig_px, pivot[1]), scale_factor))
        new_py == FAdd(pivot[2], FMul(FSub(fo.orig_py, pivot[2]), scale_factor))
        final_pz == FSub(fo.orig_pz, offset_z)
        new_key == floor_new_key(new_objs, fo.key)
        od == fo.details
        pl == od.placements[1]
        new_obj == [f \in (DOMAIN od) \cup {"identifier"} |->
                       IF f = "dimensions"
                       THEN <<sw, sl, sh>> \o SubSeq(od.dimensions, 4, Len(od.dimensions))
                       ELSE IF f = "placements"
                            THEN <<[pl EXCEPT !.position = <<new_px, new_py, final_pz>>,
                                              !.scale = scale_factor]>>
                                   \o SubSeq(od.placements, 2, Len(od.placements))
                       ELSE IF f = "identifier" THEN new_key
                       ELSE od[f]]
    IN  Put(new_objs, new_key, new_obj)

RECURSIVE floor_insert_all(_, _, _, _, _)
floor_insert_all(new_objs, floor_objs, i, pivot, scale_factor) ==
    IF i > Len(floor_objs) THEN new_objs
    ELSE floor_insert_all(floor_insert(new_objs, floor_objs[i], pivot, scale_factor),
                          floor_objs, i + 1, pivot, scale_factor)

\* where the pass dumps its result (lines 175-176)
floor_output_path(scene_json_path, new_scene_json_path) == new_scene_json_path

\* the pass as it would be if it loaded the new scene and added to it
add_resized_floor_appending(files, scene_json_path, blend_name, new_X, new_Y, new_scene_json_path) ==
    IF ~files[scene_json_path].exists
    THEN Result(FALSE, files, NoPivot, NoFactor)
    ELSE LET objects_dict == Get(files[scene_json_path].data, "objects", <<>>)
             pivot == floor_pivot(objects_dict)
             floor_objs == floor_objs_of(objects_dict, blend_name, 1)
             scale_factor == floor_scale_factor(floor_objs, new_X)
             old_objs == Get(files[new_scene_json_path].data, "objects", <<>>)
             new_scene == [objects |-> floor_insert_all(old_objs, floor_objs, 1, pivot,
                                                        scale_factor)]
         IN  Result(TRUE,
                    WriteFile(files, floor_output_path(scene_json_path, new_scene_json_path),
                              new_scene),
                    pivot, scale_factor)

\* a floor rescaler that would stop at a scene document without "objects"
add_resized_floor_strict(files, scene_json_path, blend_name, new_X, new_Y, new_scene_json_path) ==
    IF ~files[scene_json_path].exists \/ "objects" \notin DOMAIN files[scene_json_path].data
    THEN Result(FALSE, files, NoPivot, NoFactor)
    ELSE LET objects_dict == files[scene_json_path].data.objects
             pivot == floor_pivot(objects_dict)
             floor_objs == floor_objs_of(objects_dict, blend_name, 1)
             scale_factor == floor_scale_factor(floor_objs, new_X)
             new_scene == [objects |-> floor_insert_all(<<>>, floor_objs, 1, pivot, scale_factor)]
         IN  Result(TRUE,
                    WriteFile(files, floor_output_path(scene_json_path, new_scene_json_path),
                              new_scene),
                    pivot, scale_factor)

\* a floor rescaler that would take its factor from the target length
add_resized_floor_by_length(files, scene_json_path, blend_name, new_X, new_Y, new_scene_json_path) ==
    IF ~files[scene_json_path].exists
    THEN Result(FALSE, files, NoPivot, NoFactor)
    ELSE LET objects_dict == Get(files[scene_json_path].data, "objects", <<>>)
             pivot == floor_pivot(objects_dict)
             floor_objs == floor_objs_of(objects_dict, blend_name, 1)
             scale_factor == floor_scale_factor(floor_objs, new_Y)
             new_scene == [objects |-> floor_insert_all(<<>>, floor_objs, 1, pivot, scale_factor)]
         IN  Result(TRUE,
                    WriteFile(files, floor_output_path(scene_json_path, new_scene_json_path),
                              new_scene),
                    pivot, scale_factor)

\* lines 38-176
add_resized_floor(files, scene_json_path, blend_name, new_X, new_Y, new_scene_json_path) ==
    IF ~files[scene_json_path].exists
    THEN Result(FALSE, files, NoPivot, NoFactor)
    ELSE LET objects_dict == Get(files[scene_json_path].data, "objects", <<>>)
             pivot == floor_pivot(objects_dict)
             floor_objs == floor_objs_of(objects_dict, blend_name, 1)
             scale_factor == floor_scale_factor(floor_objs, new_X)
             new_scene == [objects |-> floor_insert_all(<<>>, floor_objs, 1, pivot, scale_factor)]
         IN  Result(TRUE,
                    WriteFile(files, floor_output_path(scene_json_path, new_scene_json_path),
                              new_scene),
                    pivot, scale_factor)

-----------------------------------------------------------------------------
(* The scaled-floor anchor that the later passes look for *)

NoAnchor == [status |-> "none", key |-> <<>>, floor_final_pz |-> R(0), old_floor_pz |-> R(0)]
AnchorCrash == [status |-> "crash", key |-> <<>>, floor_final_pz |-> R(0), old_floor_pz |-> R(0)]

\* the body of the anchor loop for a key that matched: the entry is passed
\* over, taken as the anchor, or an index is out of range
anchor_try(k, od, orig_objs) ==
    LET placements == Get(od, "placements", <<>>)
        base_key == SplitHead(k, s_scaled)
    IN  IF Len(placements) = 0 THEN NoAnchor
        ELSE IF Len(placements[1].position) < 3 THEN AnchorCrash
        ELSE IF ~HasKey(orig_objs, base_key) THEN NoAnchor
        ELSE LET old_floor_obj == Lookup(orig_objs, base_key)
             IN  IF Len(old_floor_obj.placements) = 0 THEN AnchorCrash
                 ELSE IF Len(old_floor_obj.placements[1].position) < 3 THEN AnchorCrash
                 ELSE [status |-> "found", key |-> k,
                       floor_final_pz |-> placements[1].position[3],
                       old_floor_pz |-> old_floor_obj.placements[1].position[3]]

-----------------------------------------------------------------------------
(* add_resized_walls.py *)

\* line 69
walls_is_floor_key(k) == Contains(Lower(k), s_scaled) /\ Contains(Lower(k), s_room)

\* lines 62-93
RECURSIVE walls_find_anchor(_, _, _)
walls_find_anchor(new_objs, orig_objs, i) ==
    IF i > Len(new_objs) THEN NoAnchor
    ELSE IF ~walls_is_floor_key(new_objs[i].key) THEN walls_find_anchor(new_objs, orig_objs, i + 1)
    ELSE LET a == anchor_try(new_objs[i].key, new_objs[i].od, orig_objs)
         IN  IF a.status = "none" THEN walls_find_anchor(new_objs, orig_objs, i + 1) ELSE a

\* lines 96-123
RECURSIVE walls_pivot_scan(_, _, _)
walls_pivot_scan(orig_objs, i, g) ==
    IF i > Len(orig_objs) THEN g
    ELSE LET od == orig_objs[i].od
             dims == Get(od, "dimensions", Zero3)
             pls == Get(od, "placements", <<>>)
         IN  IF Len(dims) < 2 THEN walls_pivot_scan(orig_objs, i + 1, g)
             ELSE IF Len(pls) = 0 THEN walls_pivot_scan(orig_objs, i + 1, g)
             ELSE LET px == pls[1].position[1]
                      py == pls[1].position[2]
                      x1 == px
                      x2 == FAdd(px, dims[1])
                      y1 == py
                      y2 == FAdd(py, dims[2])
                  IN  walls_pivot_scan(orig_objs, i + 1,
                         [gminx |-> IF FLt(x1, g.gminx) THEN x1 ELSE g.gminx,
                          gmaxx |-> IF FLt(g.gmaxx, x2) THEN x2 ELSE g.gmaxx,
                          gminy |-> IF FLt(y1, g.gminy) THEN y1 ELSE g.gminy,
                          gmaxy |-> IF FLt(g.gmaxy, y2) THEN y2 ELSE g.gmaxy])

\* the lower corner of the box, for comparison with the centre
walls_pivot_at_corner(orig_objs) ==
    LET g == walls_pivot_scan(orig_objs, 1, EmptyBox)
    IN  <<g.gminx, g.gminy>>

walls_pivot(orig_objs) ==
    LET g == walls_pivot_scan(orig_objs, 1, EmptyBox)
    IN  <<FMul(Half, FAdd(g.gminx, g.gmaxx)), FMul(Half, FAdd(g.gminy, g.gmaxy))>>

\* position padded with 0.0 to three components (lines 146-148)
Pad3(pos) == pos \o SubSeq(Zero3, 1, 3 - Len(pos))

\* lines 130-160: TRUE when the helper returns None
walls_unusable(orig_objs, obj_key) ==
    \/ ~HasKey(orig_objs, obj_key)
    \/ Len(Get(Lookup(orig_objs, obj_key), "dimensions", Zero3)) < 2
    \/ Len(Get(Lookup(orig_objs, obj_key), "placements", <<>>)) = 0

walls_get_orig_data(orig_objs, obj_key) ==
    LET od == Lookup(orig_objs, obj_key)
        dims == Get(od, "dimensions", Zero3)
        pls == Get(od, "placements", <<>>)
        pos == Pad3(Get(pls[1], "position", Zero3))
    IN  [w |-> dims[1], l |-> dims[2], h |-> IF Len(dims) >= 3 THEN dims[3] ELSE R(0),
         px |-> pos[1], py |-> pos[2], pz |-> pos[3],
         rot |-> Get(pls[1], "rotation", Zero3),
         orig_scale |-> Get(pls[1], "scale", R(1)),
         od |-> [od EXCEPT !.placements[1].position = pos]]

\* lines 167-192
walls_scale_in_xy(orig_objs, obj_key, pivot, scale_factor) ==
    LET info == walls_get_orig_data(orig_objs, obj_key)
    IN  [orig_key |-> obj_key,
         old_wall_pz |-> info.pz,
         scaled_w |-> FMul(info.w, scale_factor),
         scaled_l |-> FMul(info.l, scale_factor),
         scaled_h |-> FMul(info.h, scale_factor),
         temp_px |-> FAdd(pivot[1], FMul(FSub(info.px, pivot[1]), scale_factor)),
         temp_py |-> FAdd(pivot[2], FMul(FSub(info.py, pivot[2]), scale_factor)),
         temp_rot |-> info.rot,
         temp_old_scale |-> info.orig_scale,
         orig_objdict |-> info.od]

\* lines 201-206
RECURSIVE walls_probe(_, _, _)
walls_probe(new_objs, base_key, c) ==
    LET new_key == base_key \o s_scaled \o s_us \o StrOfNat(c)
    IN  IF HasKey(new_objs, new_key) THEN walls_probe(new_objs, base_key, c + 1) ELSE new_key

walls_new_key(new_objs, base_key) ==
    IF HasKey(new_objs, base_key \o s_scaled)
    THEN walls_probe(new_objs, base_key, 1)
    ELSE base_key \o s_scaled

\* lines 200-236
walls_insert_obj(new_objs, info, final_pz, scale_factor) ==
    LET new_key == walls_new_key(new_objs, info.orig_key)
        od == info.orig_objdict
        new_obj == [f \in (DOMAIN od) \cup {"identifier"} |->
                       IF f = "dimensions"
                       THEN <<info.scaled_w, info.scaled_l, info.scaled_h>>
                              \o SubSeq(od.dimensions, 4, Len(od.dimensions))
                       ELSE IF f = "placements"
                            THEN <<[od.placements[1] EXCEPT
                                      !.position = <<info.temp_px, info.temp_py, final_pz>>,
                                      !.rotation = info.temp_rot,
                                      !.scale = FMul(info.temp_old_scale, scale_factor)]>>
                                   \o SubSeq(od.placements, 2, Len(od.placements))
                       ELSE IF f = "identifier" THEN new_key
                       ELSE od[f]]
    IN  Put(new_objs, new_key, new_obj)

\* lines 260-268: the wall-parts of one group
RECURSIVE walls_scale_assets(_, _, _, _, _, _, _, _)
walls_scale_assets(new_objs, orig_objs, asset_list, i, pivot, scale_factor, finalWallPz, oldWallPz) ==
    IF i > Len(asset_list) THEN new_objs
    ELSE IF walls_unusable(orig_objs, asset_list[i])
    THEN walls_scale_assets(new_objs, orig_objs, asset_list, i + 1, pivot, scale_factor,
                            finalWallPz, oldWallPz)
    ELSE LET ainfo == walls_scale_in_xy(orig_objs, asset_list[i], pivot, scale_factor)
             finalAssetPz == FAdd(finalWallPz,
                                  FMul(FSub(ainfo.old_wall_pz, oldWallPz), scale_factor))
         IN  walls_scale_assets(walls_insert_obj(new_objs, ainfo, finalAssetPz, scale_factor),
                                orig_objs, asset_list, i + 1, pivot, scale_factor,
                                finalWallPz, oldWallPz)

\* lines 239-268: the loop over the wall groups
RECURSIVE walls_scale_groups(_, _, _, _, _, _, _)
walls_scale_groups(new_objs, orig_objs, groups, i, pivot, scale_factor, anchor) ==
    IF i > Len(groups) THEN new_objs
    ELSE LET main_wall == Get(groups[i], "wall_asset", <<>>)
             asset_list == Get(groups[i], "assets", <<>>)
         IN  IF walls_unusable(orig_objs, main_wall)
             THEN walls_scale_groups(new_objs, orig_objs, groups, i + 1, pivot, scale_factor, anchor)
             ELSE LET winfo == walls_scale_in_xy(orig_objs, main_wall, pivot, scale_factor)
                      oldWallPz == winfo.old_wall_pz
                      finalWallPz ==
                          IF anchor.status = "found"
                          THEN FAdd(anchor.floor_final_pz,
                                    FMul(FSub(oldWallPz, anchor.old_floor_pz), scale_factor))
                          ELSE oldWallPz
                      with_wall == walls_insert_obj(new_objs, winfo, finalWallPz, scale_factor)
                  IN  walls_scale_groups(
                          walls_scale_assets(with_wall, orig_objs, asset_list, 1, pivot,
                                             scale_factor, finalWallPz, oldWallPz),
                          orig_objs, groups, i + 1, pivot, scale_factor, anchor)

\* The names bound when line 239 evaluates "groups": the parameters and
\* locals of add_resized_walls, then the names of the module.  The function
\* never opens the wall_list path and never assigns "groups".
walls_names_in_scope ==
    {"original_scene", "wall_list", "new_scene", "scale_factor", "f", "orig_data",
     "orig_objs", "new_scene_data", "new_objs", "scaled_floor_key", "floor_final_pz",
     "old_floor_pz", "k", "od", "anchor_with_floor", "gminx", "gmaxx", "gminy", "gmaxy",
     "key", "pivot_x", "pivot_y", "get_orig_data", "scale_in_xy", "insert_obj",
     "argparse", "json", "os", "sys", "math", "copy", "add_resized_walls", "main"}

\* lines 47-272
add_resized_walls(files, original_scene, wall_list, new_scene, scale_factor) ==
    IF ~files[original_scene].exists \/ ~files[new_scene].exists
    THEN Result(FALSE, files, NoPivot, scale_factor)
    ELSE LET orig_objs == Get(files[original_scene].data, "objects", <<>>)
             new_scene_data == files[new_scene].data
             new_objs == Get(new_scene_data, "objects", <<>>)
             anchor == walls_find_anchor(new_objs, orig_objs, 1)
         IN  IF anchor.status = "crash"
             THEN Result(FALSE, files, NoPivot, scale_factor)
             ELSE LET pivot == walls_pivot(orig_objs)
                  IN  IF "groups" \notin walls_names_in_scope
                      THEN \* NameError: nothing is written
                           Result(FALSE, files, pivot, scale_factor)
                      ELSE Result(TRUE,
                                  WriteFile(files, new_scene,
                                      WithObjects(new_scene_data,
                                          walls_scale_groups(new_objs, orig_objs,
                                              files[wall_list].data, 1, pivot,
                                              scale_factor, anchor))),
                                  pivot, scale_factor)

-----------------------------------------------------------------------------
(* place_individual_assets.py *)

\* line 77
placer_is_floor_key(k) ==
    /\ Contains(Lower(k), s_floor) \/ Contains(Lower(k), s_room)
    /\ Contains(Lower(k), s_scaled)

\* lines 68-94
RECURSIVE placer_find_anchor(_, _, _)
placer_find_anchor(new_objs, orig_objs, i) ==
    IF i > Len(new_objs) THEN NoAnchor
    ELSE IF ~placer_is_floor_key(new_objs[i].key)
    THEN placer_find_anchor(new_objs, orig_objs, i + 1)
    ELSE LET a == anchor_try(new_objs[i].key, new_objs[i].od, orig_objs)
         IN  IF a.status = "none" THEN placer_find_anchor(new_objs, orig_objs, i + 1) ELSE a

\* lines 100-124
RECURSIVE placer_pivot_scan(_, _, _)
placer_pivot_scan(orig_objs, i, g) ==
    IF i > Len(orig_objs) THEN g
    ELSE LET od == orig_objs[i].od
             dims == Get(od, "dimensions", Zero3)
             pls == Get(od, "placements", <<>>)
         IN  IF Len(dims) < 2 THEN placer_pivot_scan(orig_objs, i + 1, g)
             ELSE IF Len(pls) = 0 THEN placer_pivot_scan(orig_objs, i + 1, g)
             ELSE LET px == pls[1].position[1]
                      py == pls[1].position[2]
                      x1 == px
                      x2 == FAdd(px, dims[1])
                      y1 == py
                      y2 == FAdd(py, dims[2])
                  IN  placer_pivot_scan(orig_objs, i + 1,
                         [gminx |-> IF FLt(x1, g.gminx) THEN x1 ELSE g.gminx,
                          gmaxx |-> IF FLt(g.gmaxx, x2) THEN x2 ELSE g.gmaxx,
                          gminy |-> IF FLt(y1, g.gminy) THEN y1 ELSE g.gminy,
                          gmaxy |-> IF FLt(g.gmaxy, y2) THEN y2 ELSE g.gmaxy])

placer_pivot(orig_objs) ==
    LET g == placer_pivot_scan(orig_objs, 1, EmptyBox)
    IN  <<FMul(Half, FAdd(g.gminx, g.gmaxx)), FMul(Half, FAdd(g.gminy, g.gmaxy))>>

\* lines 130-145: TRUE when get_orig_data returns None
placer_unusable(orig_objs, obj_key) ==
    \/ ~HasKey(orig_objs, obj_key)
    \/ Len(Get(Lookup(orig_objs, obj_key), "dimensions", Zero3)) < 2
    \/ Len(Get(Lookup(orig_objs, obj_key), "placements", <<>>)) = 0

\* lines 130-160; the position list of the loaded record is padded in place
placer_get_orig_data(orig_objs, obj_key) ==
    LET od == Lookup(orig_objs, obj_key)
        dims == Get(od, "dimensions", Zero3)
        pls == Get(od, "placements", <<>>)
        pos == Pad3(Get(pls[1], "position", Zero3))
    IN  [od |-> [od EXCEPT !.placements[1].position = pos],
         px |-> pos[1], py |-> pos[2], pz |-> pos[3],
         rot |-> Get(pls[1], "rotation", Zero3),
         w |-> dims[1], l |-> dims[2], h |-> IF Len(dims) >= 3 THEN dims[3] ELSE R(0),
         orig_scale |-> Get(pls[1], "scale", R(1))]

\* a transform that would scale the position itself and add it to the pivot
placer_transform_xy_from_origin(orig_objs, obj_key, pivot, scale_factor) ==
    LET info == placer_get_orig_data(orig_objs, obj_key)
    IN  [orig_key |-> obj_key,
         orig_obj |-> info.od,
         dims |-> <<info.w, info.l, info.h>>,
         old_local_scale |-> info.orig_scale,
         old_pz |-> info.pz,
         temp_px |-> FAdd(pivot[1], FMul(info.px, scale_factor)),
         temp_py |-> FAdd(pivot[2], FMul(info.py, scale_factor)),
         temp_rot |-> info.rot]

\* lines 162-181
placer_transform_xy(orig_objs, obj_key, pivot, scale_factor) ==
    LET info == placer_get_orig_data(orig_objs, obj_key)
    IN  [orig_key |-> obj_key,
         orig_obj |-> info.od,
         dims |-> <<info.w, info.l, info.h>>,
         old_local_scale |-> info.orig_scale,
         old_pz |-> info.pz,
         temp_px |-> FAdd(pivot[1], FMul(FSub(info.px, pivot[1]), scale_factor)),
         temp_py |-> FAdd(pivot[2], FMul(FSub(info.py, pivot[2]), scale_factor)),
         temp_rot |-> info.rot]

\* lines 184-189
RECURSIVE placer_probe(_, _, _)
placer_probe(new_objs, base_key, c) ==
    LET new_key == base_key \o s_placed \o s_us \o StrOfNat(c)
    IN  IF HasKey(new_objs, new_key) THEN placer_probe(new_objs, base_key, c + 1) ELSE new_key

placer_new_key(new_objs, base_key) ==
    IF HasKey(new_objs, base_key \o s_placed)
    THEN placer_probe(new_objs, base_key, 1)
    ELSE base_key \o s_placed

\* an insertion that would leave the identifier as it was copied
placer_insert_obj_as_copied(new_objs, tinfo, anchor, scale_factor) ==
    LET new_key == placer_new_key(new_objs, tinfo.orig_key)
        od == tinfo.orig_obj
        final_pz == IF anchor.status = "found"
                    THEN FAdd(anchor.floor_final_pz,
                              FMul(FSub(tinfo.old_pz, anchor.old_floor_pz), scale_factor))
                    ELSE tinfo.old_pz
        new_od == [f \in (DOMAIN od) \cup {"dimensions"} |->
                      IF f = "dimensions" THEN tinfo.dims
                      ELSE IF f = "placements"
                           THEN <<[od.placements[1] EXCEPT
                                     !.position = <<tinfo.temp_px, tinfo.temp_py, final_pz>>,
                                     !.rotation = tinfo.temp_rot,
                                     !.scale = R(1)]>>
                                  \o SubSeq(od.placements, 2, Len(od.placements))
                      ELSE od[f]]
    IN  Put(new_objs, new_key, new_od)

\* an insertion that would take Z relative to the anchor values also when no
\* anchor was found
placer_insert_obj_always_anchored(new_objs, tinfo, anchor, scale_factor) ==
    LET new_key == placer_new_key(new_objs, tinfo.orig_key)
        od == tinfo.orig_obj
        final_pz == FAdd(anchor.floor_final_pz,
                         FMul(FSub(tinfo.old_pz, anchor.old_floor_pz), scale_factor))
        new_od == [f \in (DOMAIN od) \cup {"identifier", "dimensions"} |->
                      IF f = "dimensions" THEN tinfo.dims
                      ELSE IF f = "placements"
                           THEN <<[od.placements[1] EXCEPT
                                     !.position = <<tinfo.temp_px, tinfo.temp_py, final_pz>>,
                                     !.rotation = tinfo.temp_rot,
                                     !.scale = R(1)]>>
                                  \o SubSeq(od.placements, 2, Len(od.placements))
                      ELSE IF f = "identifier" THEN new_key
                      ELSE od[f]]
    IN  Put(new_objs, new_key, new_od)

\* lines 183-216
placer_insert_obj(new_objs, tinfo, anchor, scale_factor) ==
    LET new_key == placer_new_key(new_objs, tinfo.orig_key)
        od == tinfo.orig_obj
        final_pz == IF anchor.status = "found"
                    THEN FAdd(anchor.floor_final_pz,
                              FMul(FSub(tinfo.old_pz, anchor.old_floor_pz), scale_factor))
                    ELSE tinfo.old_pz
        new_od == [f \in (DOMAIN od) \cup {"identifier", "dimensions"} |->
                      IF f = "dimensions" THEN tinfo.dims
                      ELSE IF f = "placements"
                           THEN <<[od.placements[1] EXCEPT
                                     !.position = <<tinfo.temp_px, tinfo.temp_py, final_pz>>,
                                     !.rotation = tinfo.temp_rot,
                                     !.scale = R(1)]>>
                                  \o SubSeq(od.placements, 2, Len(od.placements))
                      ELSE IF f = "identifier" THEN new_key
                      ELSE od[f]]
    IN  Put(new_objs, new_key, new_od)

\* lines 234-237
RECURSIVE placer_place_assets(_, _, _, _, _, _, _)
placer_place_assets(new_objs, orig_objs, assets_list, i, pivot, scale_factor, anchor) ==
    IF i > Len(assets_list) THEN new_objs
    ELSE IF placer_unusable(orig_objs, assets_list[i])
    THEN placer_place_assets(new_objs, orig_objs, assets_list, i + 1, pivot, scale_factor, anchor)
    ELSE placer_place_assets(
             placer_insert_obj(new_objs,
                 placer_transform_xy(orig_objs, assets_list[i], pivot, scale_factor),
                 anchor, scale_factor),
             orig_objs, assets_list, i + 1, pivot, scale_factor, anchor)

\* a placer that would pass over no group
placer_skips_none(grp) == FALSE

\* line 226: grp.get("Cloneable", True) is True
placer_skips(grp) == Get(grp, "Cloneable", "true") = "true"

\* lines 223-237
RECURSIVE placer_place_groups(_, _, _, _, _, _, _)
placer_place_groups(new_objs, orig_objs, asset_groups, i, pivot, scale_factor, anchor) ==
    IF i > Len(asset_groups) THEN new_objs
    ELSE IF placer_skips(asset_groups[i])
    THEN placer_place_groups(new_objs, orig_objs, asset_groups, i + 1, pivot, scale_factor, anchor)
    ELSE placer_place_groups(
             placer_place_assets(new_objs, orig_objs, Get(asset_groups[i], "assets", <<>>), 1,
                                 pivot, scale_factor, anchor),
             orig_objs, asset_groups, i + 1, pivot, scale_factor, anchor)

\* a dump over the file the scene was read from, for comparison
placer_output_path_in_place(original_scene_path, new_scene_path) == original_scene_path

\* where the pass dumps its result (lines 240-241)
placer_output_path(original_scene_path, new_scene_path) == new_scene_path

\* lines 47-241
place_individual_assets(files, original_scene_path, asset_group_list_path, new_scene_path, scale_factor) ==
    IF ~files[original_scene_path].exists \/ ~files[new_scene_path].exists
    THEN Result(FALSE, files, NoPivot, scale_factor)
    ELSE LET orig_objs == Get(files[original_scene_path].data, "objects", <<>>)
             new_scene_data == files[new_scene_path].data
             new_objs == Get(new_scene_data, "objects", <<>>)
             anchor == placer_find_anchor(new_objs, orig_objs, 1)
         IN  IF anchor.status = "crash" \/ ~files[asset_group_list_path].exists
             THEN Result(FALSE, files, NoPivot, scale_factor)
             ELSE LET asset_groups == files[asset_group_list_path].data
                      pivot == placer_pivot(orig_objs)
                  IN  Result(TRUE,
                             WriteFile(files,
                                 placer_output_path(original_scene_path, new_scene_path),
                                 WithObjects(new_scene_data,
                                     placer_place_groups(new_objs, orig_objs, asset_groups, 1,
                                                         pivot, scale_factor, anchor))),
                             pivot, scale_factor)

-----------------------------------------------------------------------------
(* place_cloneable_assets.py *)

\* lines 77-101: the anchor that a run of the tiler takes.  The loop is never
\* executed (see below), so no run takes one.
tiler_find_anchor(new_objs, orig_objs, i) == NoAnchor

\* Line 185, "def compute_group_centroid(bounds)", lacks its colon: the
\* interpreter rejects the file with a SyntaxError before any statement of it
\* runs, so the process exits with a failure and touches no file.
place_cloneable_assets(files, original_scene_path, asset_group_list_path, new_scene_path, scale_factor_x, scale_factor_y) ==
    Result(FALSE, files, NoPivot, NoFactor)

-----------------------------------------------------------------------------
(* extract_walls.py *)

\* Python's min and max of two floats
FMin(a, b) == IF FLt(b, a) THEN b ELSE a
FMax(a, b) == IF FLt(a, b) THEN b ELSE a

\* lines 44-48
wall_positions_close(posA, posB, threshold) ==
    LET dx == FSub(posA[1], posB[1])
        dy == FSub(posA[2], posB[2])
        dist_sq == FAdd(FMul(dx, dx), FMul(dy, dy))
    IN  FLe(dist_sq, FMul(threshold, threshold))

\* lines 56-61
point_is_near_box(px, py, bbox, threshold) ==
    LET cx == FMax(bbox[1], FMin(px, bbox[3]))
        cy == FMax(bbox[2], FMin(py, bbox[4]))
        dist_sq == FAdd(FMul(FSub(cx, px), FSub(cx, px)), FMul(FSub(cy, py), FSub(cy, py)))
    IN  FLe(dist_sq, FMul(threshold, threshold))

\* a narrower reach for wall parts
part_threshold_narrow == Q(1, 10)

\* line 117 and line 188
position_threshold == Q(1, 10)
part_threshold == Q(3, 10)

\* lines 96-114
RECURSIVE wall_items_of(_, _)
wall_items_of(objects_dict, i) ==
    IF i > Len(objects_dict) THEN <<>>
    ELSE LET od == objects_dict[i].od
             placements == Get(od, "placements", <<>>)
             rest == wall_items_of(objects_dict, i + 1)
         IN  IF "wall_type" \notin DOMAIN od THEN rest
             ELSE IF "floor_description" \in DOMAIN od THEN rest
             ELSE IF Len(placements) = 0 THEN rest
             ELSE LET pos == Get(placements[1], "position", Zero3)
                      pos2 == pos \o SubSeq(Zero3, 1, 2 - Len(pos))
                  IN  <<[key |-> objects_dict[i].key, wtype |-> od.wall_type,
                         pos |-> <<pos2[1], pos2[2]>>]>> \o rest

\* a search that would take the last group holding a close member
last_close_group(groups, witem) ==
    LET close(g) == \E j \in 1..Len(groups[g]) :
                        wall_positions_close(witem.pos, groups[g][j].pos, position_threshold)
    IN  IF \E g \in 1..Len(groups) : close(g)
        THEN CHOOSE g \in 1..Len(groups) : close(g) /\ \A h \in (g + 1)..Len(groups) : ~close(h)
        ELSE 0

\* lines 122-129: the first group holding a member close to witem, or 0
first_close_group(groups, witem) ==
    LET close(g) == \E j \in 1..Len(groups[g]) :
                        wall_positions_close(witem.pos, groups[g][j].pos, position_threshold)
    IN  IF \E g \in 1..Len(groups) : close(g)
        THEN CHOOSE g \in 1..Len(groups) : close(g) /\ \A h \in 1..(g - 1) : ~close(h)
        ELSE 0

\* lines 118-131
RECURSIVE group_walls(_, _, _)
group_walls(wall_items, i, groups) ==
    IF i > Len(wall_items) THEN groups
    ELSE LET g == first_close_group(groups, wall_items[i])
         IN  group_walls(wall_items, i + 1,
                 IF g = 0 THEN Append(groups, <<wall_items[i]>>)
                 ELSE [groups EXCEPT ![g] = Append(@, wall_items[i])])

\* lines 138-163
RECURSIVE group_box(_, _, _, _)
group_box(objects_dict, grp, i, b) ==
    IF i > Len(grp) THEN b
    ELSE LET dims == Get(Lookup(objects_dict, grp[i].key), "dimensions", Zero3)
             wx == grp[i].pos[1]
             wy == grp[i].pos[2]
         IN  IF Len(dims) < 2 THEN group_box(objects_dict, grp, i + 1, b)
             ELSE group_box(objects_dict, grp, i + 1,
                      <<FMin(b[1], wx), FMin(b[2], wy),
                        FMax(b[3], FAdd(wx, dims[1])), FMax(b[4], FAdd(wy, dims[2]))>>)

\* lines 166-189
assets_near(objects_dict, box) ==
    {objects_dict[i].key : i \in {j \in 1..Len(objects_dict) :
        LET od == objects_dict[j].od
            placements2 == Get(od, "placements", <<>>)
        IN  /\ "wall_type" \notin DOMAIN od
            /\ "floor_description" \notin DOMAIN od
            /\ "object_type" \in DOMAIN od
            /\ od.object_type = "wall_part"
            /\ Len(placements2) > 0
            /\ Len(Get(placements2[1], "position", Zero3)) >= 2
            /\ point_is_near_box(Get(placements2[1], "position", Zero3)[1],
                                 Get(placements2[1], "position", Zero3)[2],
                                 box, part_threshold)}}

\* list(assets_set): the members of the set, in the order of iter_order
RECURSIVE list_of_set(_, _, _)
list_of_set(S, iter_order, i) ==
    IF i > Len(iter_order) THEN <<>>
    ELSE (IF iter_order[i] \in S THEN <<iter_order[i]>> ELSE <<>>)
           \o list_of_set(S, iter_order, i + 1)

\* the orders in which a set of strings may be iterated
Orders(S) == {o \in [1..Cardinality(S) -> S] : \A i, j \in 1..Cardinality(S) : o[i] = o[j] => i = j}

part_keys(objects_dict) ==
    {objects_dict[i].key : i \in {j \in 1..Len(objects_dict) :
        Get(objects_dict[j].od, "object_type", "") = "wall_part"}}

\* a wall list whose records would name the last member of each group
wall_list_of_last_member(objects_dict, groups, iter_order) ==
    [g \in 1..Len(groups) |->
        [wall_asset |-> groups[g][Len(groups[g])].key,
         wall_type |-> groups[g][Len(groups[g])].wtype,
         assets |-> list_of_set(
                        assets_near(objects_dict,
                            group_box(objects_dict, groups[g], 1,
                                      <<PosInf, PosInf, NegInf, NegInf>>)),
                        iter_order, 1)]]

\* lines 134-196
wall_list_of(objects_dict, groups, iter_order) ==
    [g \in 1..Len(groups) |->
        [wall_asset |-> groups[g][1].key,
         wall_type |-> groups[g][1].wtype,
         assets |-> list_of_set(
                        assets_near(objects_dict,
                            group_box(objects_dict, groups[g], 1,
                                      <<PosInf, PosInf, NegInf, NegInf>>)),
                        iter_order, 1)]]

\* lines 86-200
extract_walls(files, scene_json_path, wall_list_path, iter_order) ==
    IF ~files[scene_json_path].exists
    THEN Result(FALSE, files, NoPivot, NoFactor)
    ELSE LET objects_dict == Get(files[scene_json_path].data, "objects", <<>>)
             groups == group_walls(wall_items_of(objects_dict, 1), 1, <<>>)
         IN  Result(TRUE,
                    WriteFile(files, wall_list_path,
                              wall_list_of(objects_dict, groups, iter_order)),
                    NoPivot, NoFactor)

-----------------------------------------------------------------------------
(* extract_groups.py *)

\* a test that would look for the key itself only
object_in_new_scene_by_key(orig_key, new_scene_objs) == HasKey(new_scene_objs, orig_key)

\* a test that would find no object in the new scene
object_in_new_scene_never(orig_key, new_scene_objs) == FALSE

\* lines 250-262
object_already_in_new_scene(orig_key, new_scene_objs) ==
    \/ HasKey(new_scene_objs, orig_key)
    \/ \E i \in 1..Len(new_scene_objs) :
           StartsWith(new_scene_objs[i].key, orig_key \o s_scaled)

\* lines 299-334: the manifest handed to the grouping model
RECURSIVE leftover_assets_of(_, _, _)
leftover_assets_of(orig_obj_dict, new_obj_dict, i) ==
    IF i > Len(orig_obj_dict) THEN <<>>
    ELSE LET key == orig_obj_dict[i].key
             obj_data == orig_obj_dict[i].od
             placements == Get(obj_data, "placements", <<>>)
             rest == leftover_assets_of(orig_obj_dict, new_obj_dict, i + 1)
         IN  IF object_already_in_new_scene(key, new_obj_dict) THEN rest
             ELSE IF "wall_type" \in DOMAIN obj_data THEN rest
             ELSE IF "floor_description" \in DOMAIN obj_data THEN rest
             ELSE IF Len(placements) = 0 THEN rest
             ELSE LET pos == Get(placements[1], "position", Zero3)
                      pos2 == pos \o SubSeq(Zero3, 1, 2 - Len(pos))
                  IN  <<[key |-> key,
                         object_type |-> Get(obj_data, "object_type", "object"),
                         object_name |-> Get(obj_data, "object_name", "unknown"),
                         position |-> <<pos2[1], pos2[2]>>]>> \o rest

\* a validation that would let every record through
group_is_valid_any(group) == TRUE

\* lines 373-386: a parsed group is its JSON object (dict) and the JSON type
\* of its "assets" member; "Cloneable" holds "true" or "false" for a JSON
\* boolean and another string for a JSON string
group_is_valid(group) ==
    /\ {"id", "group_name", "assets", "Cloneable"} \subseteq DOMAIN group.dict
    /\ group.assets_type = "list"
    /\ group.dict.Cloneable \in {"true", "false"}

RECURSIVE valid_groups_of(_, _)
valid_groups_of(parsed, i) ==
    IF i > Len(parsed) THEN <<>>
    ELSE (IF group_is_valid(parsed[i]) THEN <<parsed[i].dict>> ELSE <<>>)
           \o valid_groups_of(parsed, i + 1)

\* lines 283-353: the model is called when both documents are there, the
\* original scene has objects and some of them are left over
extract_groups_calls_model(files, original_scene_json, new_scene_json_path) ==
    /\ files[original_scene_json].exists /\ files[new_scene_json_path].exists
    /\ LET orig_obj_dict == Get(files[original_scene_json].data, "objects", <<>>)
           new_obj_dict == Get(files[new_scene_json_path].data, "objects", <<>>)
       IN  /\ Len(orig_obj_dict) > 0
           /\ Len(leftover_assets_of(orig_obj_dict, new_obj_dict, 1)) > 0

\* lines 277-390; raw_response is what call_model_for_groups returned
extract_groups(files, original_scene_json, new_scene_json_path, output_json_path, raw_response) ==
    IF ~files[original_scene_json].exists \/ ~files[new_scene_json_path].exists
    THEN Result(FALSE, files, NoPivot, NoFactor)
    ELSE LET orig_obj_dict == Get(files[original_scene_json].data, "objects", <<>>)
             new_obj_dict == Get(files[new_scene_json_path].data, "objects", <<>>)
             leftover_assets == leftover_assets_of(orig_obj_dict, new_obj_dict, 1)
             written ==
                 IF Len(orig_obj_dict) = 0 THEN <<>>
                 ELSE IF Len(leftover_assets) = 0 THEN <<>>
                 ELSE IF raw_response.kind = "none" THEN <<>>
                 ELSE IF raw_response.kind = "garbage" THEN <<>>
                 ELSE valid_groups_of(raw_response.parsed, 1)
         IN  Result(TRUE, WriteFile(files, output_json_path, written), NoPivot, NoFactor)

-----------------------------------------------------------------------------
(* get_total_floor_dimensions.py and main.py *)

\* get_total_floor_dimensions.py lines 37-58: total_X
RECURSIVE total_floor_X(_, _, _)
total_floor_X(objects_dict, blend_name, i) ==
    IF i > Len(objects_dict) THEN R(0)
    ELSE LET obj_key == objects_dict[i].key
             prefix == blend_name \o s_dash
             obj_key_stripped == IF StartsWith(obj_key, prefix)
                                 THEN SubSeq(obj_key, Len(prefix) + 1, Len(obj_key))
                                 ELSE obj_key
             dimensions == Get(objects_dict[i].od, "dimensions", Zero3)
             rest == total_floor_X(objects_dict, blend_name, i + 1)
         IN  IF Contains(Lower(obj_key_stripped), s_room) /\ Len(dimensions) >= 2
             THEN FAdd(dimensions[1], rest)
             ELSE rest

\* main.py lines 73-135: the passes in the order main starts them
PassOrder == <<"floor", "wall_grouper", "wall_rescaler", "group_extraction", "placer", "tiler">>

\* the passes whose command line holds str(new_X / total_X) (lines 100, 122, 132)
NeedsFactor == {"wall_rescaler", "placer", "tiler"}

\* a main that would start a pass without waiting for the one before it
main_may_spawn_at_once(children) == TRUE

\* subprocess.run returns only when the child has exited: main starts a pass
\* when no child of it is running
main_may_spawn(children) == children = {}

\* the grouping responses for a manifest: no answer, an answer that is not
\* JSON, or a list of one or two groups naming at most MaxMentions keys of
\* the manifest (or a key that is in no scene); some groups are malformed, and
\* the second of two groups is well-formed and not cloneable
Group(assets, cloneable) ==
    [dict |-> [id |-> 1, group_name |-> "g", assets |-> assets, Cloneable |-> cloneable],
     assets_type |-> "list"]

KeySeqs(K, n) == UNION {[1..m -> K] : m \in 1..n}

GoodGroups(K, n) == {Group(a, c) : a \in KeySeqs(K, n), c \in {"true", "false"}}

BadGroups(K) ==
    UNION {{[dict |-> [id |-> 1, assets |-> <<k>>, Cloneable |-> "false"], assets_type |-> "list"],
            [dict |-> [id |-> 1, group_name |-> "g", assets |-> <<k>>, Cloneable |-> "yes"],
             assets_type |-> "list"],
            [dict |-> [id |-> 1, group_name |-> "g", assets |-> <<k>>, Cloneable |-> "false"],
             assets_type |-> "string"]} : k \in K}

Responses(K) ==
    {[kind |-> "none", parsed |-> <<>>], [kind |-> "garbage", parsed |-> <<>>]}
      \cup {[kind |-> "json", parsed |-> <<g>>] : g \in GoodGroups(K, MaxMentions) \cup BadGroups(K)}
      \cup {[kind |-> "json", parsed |-> <<g1, g2>>] :
               g1 \in {g \in GoodGroups(K, MaxMentions - 1) \cup BadGroups(K) :
                          Len(g.dict.assets) < MaxMentions},
               g2 \in {g \in GoodGroups(K, MaxMentions - 1) : g.dict.Cloneable = "false"}}

\* the keys a response may name, given the files
ManifestKeys(files) ==
    LET m == leftover_assets_of(Get(files[scene_json].data, "objects", <<>>),
                                Get(files[new_scene_json].data, "objects", <<>>), 1)
    IN  {m[i].key : i \in 1..Len(m)} \cup {k_Ghost}

\* one pass started the way main.py starts it
RunPass(pass, files, u, raw_response, iter_order) ==
    LET total_X == total_floor_X(Get(files[scene_json].data, "objects", <<>>), u.blend_name, 1)
        factor == FDiv(u.new_X, total_X)
    IN  CASE pass = "floor" ->
               add_resized_floor(files, scene_json, u.blend_name, u.new_X, u.new_Y, new_scene_json)
          [] pass = "wall_grouper" ->
               extract_walls(files, scene_json, wall_list_json, iter_order)
          [] pass = "wall_rescaler" ->
               add_resized_walls(files, scene_json, wall_list_json, new_scene_json, factor)
          [] pass = "group_extraction" ->
               extract_groups(files, scene_json, new_scene_json, asset_group_list_json,
                              raw_response)
          [] pass = "placer" ->
               place_individual_assets(files, scene_json, asset_group_list_json,
                                       new_scene_json, factor)
          [] pass = "tiler" ->
               place_cloneable_assets(files, scene_json, asset_group_list_json,
                                      new_scene_json, factor, factor)

-----------------------------------------------------------------------------
(* State *)

\* what the last pass that ended computed
Observed(pass, res, new_X) ==
    [pass |-> pass, ok |-> res.ok, pivot |-> res.pivot, sf |-> res.sf, new_X |-> new_X]

Nothing == [pass |-> "none", ok |-> TRUE, pivot |-> NoPivot, sf |-> NoFactor, new_X |-> NoFactor]

PivotPasses == {"floor", "wall_rescaler", "placer"}

SeePivot(seen, pass, res) ==
    IF pass \in PivotPasses /\ res.pivot # NoPivot
    THEN [seen EXCEPT ![pass] = @ \cup {res.pivot}]
    ELSE seen

InitFiles(scene) ==
    [p \in Paths |-> IF p = scene_json THEN [exists |-> TRUE, data |-> scene]
                     ELSE IF p = new_scene_json THEN NoSceneFile
                     ELSE NoListFile]

\* asked is the answer that the last group extraction got from the model
NoResponse == [kind |-> "none", parsed |-> <<>>]

DefaultUser == [new_X |-> R(8), new_Y |-> R(8), blend_name |-> k_blend]

Init ==
    /\ \E scene \in Scenes : fs = InitFiles(scene)
    /\ last = Nothing
    /\ pivot_seen = [p \in PivotPasses |-> {}]
    /\ asked = NoResponse
    /\ runs = 0
    /\ pc = 1
    /\ running = {}
    /\ started = <<>>
    /\ failed = FALSE
    /\ user = DefaultUser

MainVarsUnchanged == UNCHANGED <<pc, running, started, failed, user>>

\* a pass has ended with result res
Ended(pass, res, new_X) ==
    /\ fs' = res.files
    /\ last' = Observed(pass, res, new_X)
    /\ pivot_seen' = SeePivot(pivot_seen, pass, res)

(* The passes started by hand, each from its own command line *)

RunFloor ==
    /\ runs < MaxRuns
    /\ \E new_X \in NewXs, new_Y \in NewYs :
          Ended("floor",
                add_resized_floor(fs, scene_json, k_blend, new_X, new_Y, new_scene_json),
                new_X)
    /\ runs' = runs + 1
    /\ UNCHANGED asked
    /\ MainVarsUnchanged

RunWallGrouper ==
    /\ runs < MaxRuns
    /\ \E iter_order \in Orders(part_keys(Get(fs[scene_json].data, "objects", <<>>))) :
          Ended("wall_grouper", extract_walls(fs, scene_json, wall_list_json, iter_order),
                NoFactor)
    /\ runs' = runs + 1
    /\ UNCHANGED asked
    /\ MainVarsUnchanged

RunWallRescaler ==
    /\ runs < MaxRuns
    /\ \E scale_factor \in Factors :
          Ended("wall_rescaler",
                add_resized_walls(fs, scene_json, wall_list_json, new_scene_json, scale_factor),
                NoFactor)
    /\ runs' = runs + 1
    /\ UNCHANGED asked
    /\ MainVarsUnchanged

RunGroupExtraction ==
    /\ runs < MaxRuns
    /\ \E raw_response \in Responses(ManifestKeys(fs)) :
          /\ Ended("group_extraction",
                   extract_groups(fs, scene_json, new_scene_json, asset_group_list_json,
                                  raw_response),
                   NoFactor)
          /\ asked' = IF extract_groups_calls_model(fs, scene_json, new_scene_json)
                       THEN raw_response ELSE asked
    /\ runs' = runs + 1
    /\ MainVarsUnchanged

RunPlacer ==
    /\ runs < MaxRuns
    /\ \E scale_factor \in Factors :
          Ended("placer",
                place_individual_assets(fs, scene_json, asset_group_list_json, new_scene_json,
                                        scale_factor),
                NoFactor)
    /\ runs' = runs + 1
    /\ UNCHANGED asked
    /\ MainVarsUnchanged

RunTiler ==
    /\ runs < MaxRuns
    /\ \E scale_factor \in Factors :
          Ended("tiler",
                place_cloneable_assets(fs, scene_json, asset_group_list_json, new_scene_json,
                                       scale_factor, scale_factor),
                NoFactor)
    /\ runs' = runs + 1
    /\ UNCHANGED asked
    /\ MainVarsUnchanged

Next ==
    \/ RunFloor
    \/ RunWallGrouper
    \/ RunWallRescaler
    \/ RunGroupExtraction
    \/ RunPlacer
    \/ RunTiler

Spec == Init /\ [][Next]_vars

-----------------------------------------------------------------------------
(* The wall grouper on scenes of walls and wall parts *)

InitWalls ==
    /\ \E scene \in WallScenes : fs = InitFiles(scene)
    /\ last = Nothing
    /\ pivot_seen = [p \in PivotPasses |-> {}]
    /\ asked = NoResponse
    /\ runs = 0
    /\ pc = 1
    /\ running = {}
    /\ started = <<>>
    /\ failed = FALSE
    /\ user = DefaultUser

NextWalls == RunWallGrouper

SpecWalls == InitWalls /\ [][NextWalls]_vars

-----------------------------------------------------------------------------
(* main.py: the pipeline *)

InitMain ==
    /\ \E scene \in Scenes : fs = InitFiles(scene)
    /\ last = Nothing
    /\ pivot_seen = [p \in PivotPasses |-> {}]
    /\ asked = NoResponse
    /\ runs = 0
    /\ pc = 1
    /\ running = {}
    /\ started = <<>>
    /\ failed = FALSE
    /\ \E new_X \in NewXs, new_Y \in NewYs :
          user = [new_X |-> new_X, new_Y |-> new_Y, blend_name |-> k_blend]

\* main builds the command line of the next pass and starts it
\* (subprocess.run); str(new_X / total_X) raises ZeroDivisionError when the
\* scene has no floor width, and main ends there
MainSpawn ==
    /\ ~failed
    /\ pc <= Len(PassOrder)
    /\ main_may_spawn(running)
    /\ LET pass == PassOrder[pc]
           total_X == total_floor_X(Get(fs[scene_json].data, "objects", <<>>),
                                    user.blend_name, 1)
       IN  IF pass \in NeedsFactor /\ total_X = R(0)
           THEN /\ failed' = TRUE
                /\ UNCHANGED <<pc, running, started>>
           ELSE /\ running' = running \cup {pass}
                /\ started' = Append(started, pass)
                /\ pc' = pc + 1
                /\ UNCHANGED failed
    /\ UNCHANGED <<fs, last, pivot_seen, asked, runs, user>>

\* the child runs to its end and exits; check=True makes main raise
\* CalledProcessError on a non-zero exit status
PassExit ==
    /\ \E pass \in running :
         \E raw_response \in Responses(ManifestKeys(fs)),
            iter_order \in Orders(part_keys(Get(fs[scene_json].data, "objects", <<>>))) :
            LET res == RunPass(pass, fs, user, raw_response, iter_order)
            IN  /\ Ended(pass, res, user.new_X)
                /\ asked' = IF /\ pass = "group_extraction"
                               /\ extract_groups_calls_model(fs, scene_json, new_scene_json)
                            THEN raw_response ELSE asked
                /\ running' = running \ {pass}
                /\ failed' = (failed \/ ~res.ok)
    /\ UNCHANGED <<pc, started, runs, user>>

NextMain == MainSpawn \/ PassExit

SpecMain == InitMain /\ [][NextMain]_vars

-----------------------------------------------------------------------------
(* The passes of main.py started by hand, one after the other *)

\* the command lines of main.py typed in its order, each once, with the
\* factor that main computes, whether the pass before ended with an error
\* or not; a pass that needs the factor is not started when the scene has no
\* floor width to compute it from
RunNextByHand ==
    /\ pc <= Len(PassOrder)
    /\ LET pass == PassOrder[pc]
       IN  /\ pass \in NeedsFactor =>
                 total_floor_X(Get(fs[scene_json].data, "objects", <<>>),
                               user.blend_name, 1) # R(0)
           /\ \E raw_response \in Responses(ManifestKeys(fs)),
                 iter_order \in Orders(part_keys(Get(fs[scene_json].data, "objects", <<>>))) :
                 /\ Ended(pass, RunPass(pass, fs, user, raw_response, iter_order), user.new_X)
                 /\ asked' = IF /\ pass = "group_extraction"
                                /\ extract_groups_calls_model(fs, scene_json, new_scene_json)
                             THEN raw_response ELSE asked
    /\ pc' = pc + 1
    /\ UNCHANGED <<running, started, failed, runs, user>>

NextByHand == RunNextByHand

SpecByHand == InitMain /\ [][NextByHand]_vars

-----------------------------------------------------------------------------
(* Properties *)

OrigObjs == Get(fs[scene_json].data, "objects", <<>>)
NewObjs == Get(fs[new_scene_json].data, "objects", <<>>)
WallGroups == fs[wall_list_json].data

OutputOf(pass) ==
    CASE pass = "wall_grouper" -> wall_list_json
      [] pass = "group_extraction" -> asset_group_list_json
      [] OTHER -> new_scene_json

\* C2: the passes are started in the order floor rescaler, wall grouper, wall
\* rescaler, group extraction, individual placer, cloneable tiler; when a pass
\* is started every pass before it has ended and its output is on disk; at
\* most one pass runs at a time; once a pass has failed no pass is started.
C2_Sequential ==
    /\ Cardinality(running) <= 1
    /\ Len(started) <= Len(PassOrder)
    /\ \A i \in 1..Len(started) : started[i] = PassOrder[i]
    /\ \A p \in running : p = started[Len(started)]
    /\ \A i \in 1..(Len(started) - 1) :
          started[i] \notin running /\ fs[OutputOf(started[i])].exists
    /\ failed => running = {}

C2_NothingAfterFailure == [][failed => started' = started]_vars

C2_PipelineOrder == []C2_Sequential /\ C2_NothingAfterFailure

\* the third pass has failed and the pipeline has stopped there
C2_Witness ==
    /\ failed /\ ~last.ok /\ last.pass = "wall_rescaler"
    /\ started = SubSeq(PassOrder, 1, 3)
    /\ running = {}
    /\ fs[wall_list_json].exists

\* an object that has at least 2 dimension components and a placement
Usable(od) ==
    Len(Get(od, "dimensions", Zero3)) >= 2 /\ Len(Get(od, "placements", <<>>)) >= 1

UsableKey(objs, k) == HasKey(objs, k) /\ Usable(Lookup(objs, k))

\* the n-th name of the sequence base, base_1, base_2, ...
NthName(base, n) == IF n = 0 THEN base ELSE base \o s_us \o StrOfNat(n)

\* the first name of that sequence that objs does not hold
FirstFree(objs, base) ==
    NthName(base, CHOOSE n \in 0..Len(objs) :
                     /\ ~HasKey(objs, NthName(base, n))
                     /\ \A m \in 0..(n - 1) : HasKey(objs, NthName(base, m)))

\* every entry of objs is in later, in its place and as it was
Kept(objs, later) ==
    Len(later) >= Len(objs) /\ \A i \in 1..Len(objs) : later[i] = objs[i]

\* the first asset that the placer is to place: the first usable asset of the
\* first group that is not cloneable
FirstToPlace(groups, objs) ==
    LET G == {g \in 1..Len(groups) :
                 /\ Get(groups[g], "Cloneable", "true") = "false"
                 /\ \E a \in 1..Len(groups[g].assets) : UsableKey(objs, groups[g].assets[a])}
    IN  IF G = {} THEN <<>>
        ELSE LET g == CHOOSE x \in G : \A y \in G : x <= y
                 A == {a \in 1..Len(groups[g].assets) : UsableKey(objs, groups[g].assets[a])}
             IN  <<groups[g].assets[CHOOSE x \in A : \A y \in A : x <= y]>>

\* the wall of the first wall group that has a usable wall
FirstWall(groups, objs) ==
    LET G == {g \in 1..Len(groups) : UsableKey(objs, Get(groups[g], "wall_asset", <<>>))}
    IN  IF G = {} THEN <<>>
        ELSE <<groups[CHOOSE x \in G : \A y \in G : x <= y].wall_asset>>

\* C3: an insertion whose derived key is already in the new scene is no error
\* and overwrites nothing: a step of the wall rescaler that has a wall to
\* insert, and a step of the placer that has an asset to place, ends without
\* an error, keeps every entry the new scene held, and leaves the record under
\* the first name of base, base_1, base_2, ... that the new scene did not hold.
C3_StoresUnderFirstFreeName ==
    [][/\ (/\ last'.pass = "wall_rescaler"
           /\ fs[new_scene_json].exists /\ fs[wall_list_json].exists
           /\ FirstWall(WallGroups, OrigObjs) # <<>>)
          => /\ last'.ok
             /\ Kept(NewObjs, NewObjs')
             /\ HasKey(NewObjs', FirstFree(NewObjs,
                                   FirstWall(WallGroups, OrigObjs)[1] \o s_scaled))
       /\ (/\ last'.pass = "placer"
           /\ fs[new_scene_json].exists /\ fs[asset_group_list_json].exists
           /\ FirstToPlace(fs[asset_group_list_json].data, OrigObjs) # <<>>)
          => /\ last'.ok
             /\ Kept(NewObjs, NewObjs')
             /\ HasKey(NewObjs', FirstFree(NewObjs,
                   FirstToPlace(fs[asset_group_list_json].data, OrigObjs)[1] \o s_placed))
      ]_vars

\* the entries of objs that a pass writes, by the suffix it derives
OwnEntries(pass, objs) ==
    {i \in 1..Len(objs) :
        CASE pass = "floor" ->
               Contains(objs[i].key, s_scaled) /\ Contains(Lower(objs[i].key), s_room)
          [] pass = "wall_rescaler" ->
               Contains(objs[i].key, s_scaled) /\ ~Contains(Lower(objs[i].key), s_room)
          [] pass = "placer" -> Contains(objs[i].key, s_placed)
          [] pass = "tiler" -> Contains(objs[i].key, s_clone)
          [] OTHER -> FALSE}

\* C4: a pass (floor rescaler, wall rescaler, placer, tiler) that is run
\* again on a new scene holding its own earlier output keeps every earlier
\* entry and adds entries, so that the number of its entries grows.
C4_RerunAddsEntries ==
    [][\A pass \in {"floor", "wall_rescaler", "placer", "tiler"} :
          (last'.pass = pass /\ OwnEntries(pass, NewObjs) # {})
             => /\ Kept(NewObjs, NewObjs')
                /\ Cardinality(OwnEntries(pass, NewObjs'))
                     > Cardinality(OwnEntries(pass, NewObjs))
      ]_vars

\* the least and the greatest of a set of numbers
Least(S) == CHOOSE a \in S : \A b \in S : FLe(a, b)
Greatest(S) == CHOOSE a \in S : \A b \in S : FLe(b, a)

UsableIdx(objs) == {i \in 1..Len(objs) : Usable(objs[i].od)}

\* the centre of the union bounding box of the rectangles
\* [x, x + width] x [y, y + length] of the usable objects
UnionCentre(objs) ==
    LET U == UsableIdx(objs)
        X(i) == objs[i].od.placements[1].position[1]
        Y(i) == objs[i].od.placements[1].position[2]
        W(i) == objs[i].od.dimensions[1]
        L(i) == objs[i].od.dimensions[2]
    IN  <<FMul(Half, FAdd(Least({X(i) : i \in U}), Greatest({FAdd(X(i), W(i)) : i \in U}))),
          FMul(Half, FAdd(Least({Y(i) : i \in U}), Greatest({FAdd(Y(i), L(i)) : i \in U})))>>

\* C5: the pivot that the floor rescaler computes is the centre of the union
\* bounding box of the rectangles of all objects of the original scene that
\* have at least 2 dimension components and a placement, the other objects
\* being passed over; boxes [0,0]-[2,2] and [4,4]-[6,6] give (3,3).
C5_PivotIsUnionCentre ==
    \A p \in pivot_seen["floor"] :
        /\ UsableIdx(OrigObjs) # {} => p = UnionCentre(OrigObjs)
        /\ {OrigObjs[i].key : i \in UsableIdx(OrigObjs)} = {k_Lamp, k_Sofa}
              => p = <<R(3), R(3)>>

\* the two boxes of the example and an object with one dimension component
C5_Witness ==
    /\ Keys(OrigObjs) = {k_Lamp, k_Sofa, k_Rug}
    /\ last.pass = "floor" /\ last.ok
    /\ pivot_seen["floor"] = {<<R(3), R(3)>>}

\* C6: on one original scene the floor rescaler, the wall rescaler and the
\* placer compute the same pivot, whatever the passes before them have
\* written to the new scene.
C6_SamePivot ==
    \A p1 \in PivotPasses, p2 \in PivotPasses :
        \A a \in pivot_seen[p1], b \in pivot_seen[p2] : a = b

\* the floor rescaler has written anchors, and the placer, run after it on a
\* scene with usable objects, has computed its pivot and placed an asset
C6_Witness ==
    /\ pivot_seen["floor"] # {} /\ pivot_seen["placer"] # {}
    /\ last.pass = "placer" /\ last.ok
    /\ IsFinite(last.pivot[1]) /\ IsFinite(last.pivot[2])
    /\ OwnEntries("floor", NewObjs) # {} /\ OwnEntries("placer", NewObjs) # {}

\* the key without the room-name prefix
StrippedName(k) ==
    LET prefix == k_blend \o s_dash
    IN  IF Len(k) >= Len(prefix) /\ SubSeq(k, 1, Len(prefix)) = prefix
        THEN SubSeq(k, Len(prefix) + 1, Len(k))
        ELSE k

\* the stripped key contains "room", in any case
NamesRoom(k) ==
    \E i \in 1..(Len(StrippedName(k)) - 3) :
        Lower(SubSeq(StrippedName(k), i, i + 3)) = s_room

\* the objects that the statement of C7 calls floors, and those among them
\* that have at least 2 dimension components and a placement
NamedFloors(objs) == {i \in 1..Len(objs) : NamesRoom(objs[i].key)}
UsableFloors(objs) == {i \in NamedFloors(objs) : Usable(objs[i].od)}

RECURSIVE SumWidths(_, _)
SumWidths(objs, I) ==
    IF I = {} THEN R(0)
    ELSE LET i == CHOOSE x \in I : TRUE
         IN  FAdd(Get(objs[i].od, "dimensions", Zero3)[1], SumWidths(objs, I \ {i}))

FactorFor(sum, new_X) == IF sum = R(0) THEN R(1) ELSE FDiv(new_X, sum)

\* the original keys of the scaled floors in the new scene
ScaledBases(objs) ==
    {SubSeq(objs[j].key, 1, Len(objs[j].key) - Len(s_scaled)) : j \in 1..Len(objs)}

C8_OneEntryPerFloor ==
    last.pass = "floor" =>
        /\ Len(NewObjs) = Cardinality(UsableFloors(OrigObjs))
        /\ \A i \in UsableFloors(OrigObjs) :
              Cardinality({j \in 1..Len(NewObjs) :
                              NewObjs[j].key = OrigObjs[i].key \o s_scaled}) = 1
        /\ \A j \in 1..Len(NewObjs) :
              \E i \in UsableFloors(OrigObjs) : NewObjs[j].key = OrigObjs[i].key \o s_scaled

\* C8 as the specification states it: one entry for each floor object
C8_AsStated ==
    last.pass = "floor" =>
        /\ Len(NewObjs) = Cardinality(NamedFloors(OrigObjs))
        /\ \A i \in NamedFloors(OrigObjs) :
              Cardinality({j \in 1..Len(NewObjs) :
                              NewObjs[j].key = OrigObjs[i].key \o s_scaled}) = 1
        /\ \A j \in 1..Len(NewObjs) :
              \E i \in NamedFloors(OrigObjs) : NewObjs[j].key = OrigObjs[i].key \o s_scaled

\* the floor rescaler run a second time, on a scene with a floor, a floor
\* without a placement and an object that is no floor
C8_Witness ==
    /\ last.pass = "floor" /\ runs >= 2
    /\ Keys(OrigObjs) = {k_Room1, k_Room3, k_Sofa}
    /\ Keys(NewObjs) = {k_Room1 \o s_scaled}
    /\ Len(NewObjs) = 1

\* a point scaled about the pivot
ScaledAbout(pivot, x, scale_factor) == FAdd(pivot, FMul(FSub(x, pivot), scale_factor))

\* the floor anchor of the new scene: the first scaled floor, with its new Z
\* and the Z of the floor it was made from
AnchorOf(new, orig) ==
    LET A == {j \in 1..Len(new) :
                 /\ Contains(Lower(new[j].key), s_room) /\ Contains(new[j].key, s_scaled)
                 /\ HasKey(orig, SubSeq(new[j].key, 1, Len(new[j].key) - Len(s_scaled)))}
    IN  IF A = {} THEN <<>>
        ELSE LET j == CHOOSE x \in A : \A y \in A : x <= y
             IN  <<[floor_new_z |-> new[j].od.placements[1].position[3],
                    floor_orig_z |->
                        Lookup(orig, SubSeq(new[j].key, 1, Len(new[j].key) - Len(s_scaled)))
                            .placements[1].position[3]]>>

\* objs holds, under key, the record of orig_key scaled by scale_factor about
\* the pivot and put at height z
HoldsScaled(objs, key, orig, orig_key, pivot, scale_factor, z) ==
    /\ HasKey(objs, key)
    /\ LET od == Lookup(objs, key)
           src == Lookup(orig, orig_key)
           pos == Pad3(src.placements[1].position)
       IN  /\ \A d \in 1..Len(src.dimensions) :
                 d <= 3 => od.dimensions[d] = FMul(src.dimensions[d], scale_factor)
           /\ od.placements[1].position =
                 <<ScaledAbout(pivot[1], pos[1], scale_factor),
                   ScaledAbout(pivot[2], pos[2], scale_factor), z>>

\* the new Z of a wall over the floor anchor
WallNewZ(new, orig, wall_key, scale_factor) ==
    LET a == AnchorOf(new, orig)
        wz == Pad3(Lookup(orig, wall_key).placements[1].position)[3]
    IN  IF a = <<>> THEN wz
        ELSE FAdd(a[1].floor_new_z, FMul(FSub(wz, a[1].floor_orig_z), scale_factor))

\* C9: the wall rescaler reads the wall groups of the wall_list document and,
\* for each group with a usable wall, the new scene then holds under
\* <wall_key>_scaled the wall with XY scaled about the pivot, dimensions
\* multiplied by scale_factor and Z = floor_new_z + (orig_wall_z -
\* floor_orig_z) * scale_factor when there is a floor anchor; a wall at Z = 2
\* over a floor that stays at 0 is at 4 for the factor 2.
C9_WallsInserted ==
    (/\ last.pass = "wall_rescaler"
     /\ fs[new_scene_json].exists /\ fs[wall_list_json].exists)
       => /\ last.ok
          /\ \A g \in 1..Len(WallGroups) :
                UsableKey(OrigObjs, WallGroups[g].wall_asset)
                   => HoldsScaled(NewObjs, WallGroups[g].wall_asset \o s_scaled, OrigObjs,
                                  WallGroups[g].wall_asset, UnionCentre(OrigObjs), last.sf,
                                  WallNewZ(NewObjs, OrigObjs, WallGroups[g].wall_asset,
                                           last.sf))
          /\ (/\ last.sf = R(2)
              /\ Keys(OrigObjs) = {k_Room2, k_Wall1}
              /\ Len(WallGroups) = 1)
                => /\ HasKey(NewObjs, k_Wall1 \o s_scaled)
                   /\ Lookup(NewObjs, k_Wall1 \o s_scaled).placements[1].position[3] = R(4)

\* C10: for every usable wall-part of a wall group the new scene holds the
\* part with XY scaled about the pivot and Z = new_wall_z + (orig_part_z -
\* orig_wall_z) * scale_factor, new_wall_z being the new Z of the wall of the
\* group; a part at 2.5 on a wall at 2 moved to 4 is at 5 for the factor 2.
C10_PartsChainFromWall ==
    (/\ last.pass = "wall_rescaler"
     /\ fs[new_scene_json].exists /\ fs[wall_list_json].exists)
       => \A g \in 1..Len(WallGroups) :
             UsableKey(OrigObjs, WallGroups[g].wall_asset)
                => \A a \in 1..Len(WallGroups[g].assets) :
                      UsableKey(OrigObjs, WallGroups[g].assets[a])
                         => LET wall == WallGroups[g].wall_asset
                                part == WallGroups[g].assets[a]
                                wz == Pad3(Lookup(OrigObjs, wall).placements[1].position)[3]
                                pz == Pad3(Lookup(OrigObjs, part).placements[1].position)[3]
                            IN  /\ HasKey(NewObjs, wall \o s_scaled)
                                /\ HoldsScaled(NewObjs, part \o s_scaled, OrigObjs, part,
                                       UnionCentre(OrigObjs), last.sf,
                                       FAdd(Lookup(NewObjs, wall \o s_scaled)
                                               .placements[1].position[3],
                                            FMul(FSub(pz, wz), last.sf)))

AssetGroups == fs[asset_group_list_json].data

\* key is one of base, base_1, base_2, ...
IsNameOf(key, base) == \E n \in 0..MaxRuns * MaxMentions : key = NthName(base, n)

\* width, length and height of a record, the height 0.0 when it has none
Dims3(dims) == <<dims[1], dims[2], IF Len(dims) >= 3 THEN dims[3] ELSE R(0)>>

\* the assets named by the groups with Cloneable false, in order; with
\* usable_only, those of them that are usable in objs
RECURSIVE Mentions(_, _, _, _)
Mentions(groups, objs, usable_only, g) ==
    IF g > Len(groups) THEN <<>>
    ELSE (IF Get(groups[g], "Cloneable", "true") = "false"
          THEN SelectSeq(groups[g].assets,
                         LAMBDA a : ~usable_only \/ UsableKey(objs, a))
          ELSE <<>>) \o Mentions(groups, objs, usable_only, g + 1)

\* the entry e is a copy of the record of asset in orig, moved about the
\* pivot, with the dimensions dims and the local scale 1.0
PlacedCopy(e, orig, asset, dims, pivot, scale_factor) ==
    /\ IsNameOf(e.key, asset \o s_placed)
    /\ e.od.dimensions = dims
    /\ LET pos == Lookup(orig, asset).placements[1].position
       IN  /\ e.od.placements[1].position[1] = ScaledAbout(pivot[1], pos[1], scale_factor)
           /\ e.od.placements[1].position[2] = ScaledAbout(pivot[2], pos[2], scale_factor)
    /\ e.od.placements[1].scale = R(1)

\* C11: the placer acts only on the groups with Cloneable false and, for
\* every usable asset of such a group, in order, adds under <key>_placed (or
\* the next free name) a copy whose XY is pivot + (orig_xy - pivot) *
\* scale_factor, whose dimensions are the original width, length and height
\* unscaled (the height 0.0 when the original has two components), and whose
\* local scale is 1.0; it adds nothing else and keeps what the scene held.
C11_PlacerPlaces ==
    [][(last'.pass = "placer" /\ last'.ok)
          => LET M == Mentions(AssetGroups, OrigObjs, TRUE, 1)
                 n == Len(NewObjs)
             IN  /\ Kept(NewObjs, NewObjs')
                 /\ Len(NewObjs') = n + Len(M)
                 /\ \A m \in 1..Len(M) :
                       PlacedCopy(NewObjs'[n + m], OrigObjs, M[m],
                                  Dims3(Lookup(OrigObjs, M[m]).dimensions),
                                  UnionCentre(OrigObjs), last'.sf)
      ]_vars

\* C11 as the specification states it: a copy for every asset of such a
\* group, with the dimensions of the original
C11_AsStated ==
    [][(last'.pass = "placer" /\ last'.ok)
          => LET M == Mentions(AssetGroups, OrigObjs, FALSE, 1)
                 n == Len(NewObjs)
             IN  /\ Len(NewObjs') = n + Len(M)
                 /\ \A m \in 1..Len(M) :
                       /\ HasKey(OrigObjs, M[m])
                       /\ PlacedCopy(NewObjs'[n + m], OrigObjs, M[m],
                                     Lookup(OrigObjs, M[m]).dimensions,
                                     UnionCentre(OrigObjs), last'.sf)
      ]_vars

\* the placer, with the factor 2, has passed over a cloneable group and has
\* placed the lamp of the other group with its size and the local scale 1.0
C11_Witness ==
    /\ last.pass = "placer" /\ last.ok /\ last.sf = R(2)
    /\ Len(AssetGroups) = 2
    /\ AssetGroups[1].Cloneable = "true" /\ AssetGroups[1].assets = <<k_Sofa>>
    /\ AssetGroups[2].Cloneable = "false" /\ AssetGroups[2].assets = <<k_Lamp>>
    /\ HasKey(OrigObjs, k_Sofa) /\ ~HasKey(NewObjs, k_Sofa \o s_placed)
    /\ HasKey(NewObjs, k_Lamp \o s_placed)
    /\ Lookup(NewObjs, k_Lamp \o s_placed).dimensions = <<R(2), R(2), R(0)>>
    /\ Lookup(NewObjs, k_Lamp \o s_placed).placements[1].scale = R(1)

\* the tiler has been run on a new scene and a group list that exist
TilerRan ==
    /\ last.pass = "tiler"
    /\ fs[new_scene_json].exists /\ fs[asset_group_list_json].exists

\* the assets that the tiler is to clone: the usable assets, of positive
\* width and length, of the groups with Cloneable true
ToClone(groups, objs) ==
    UNION {{groups[g].assets[a] : a \in 1..Len(groups[g].assets)} :
              g \in {x \in 1..Len(groups) : Get(groups[x], "Cloneable", "false") = "true"}} \cap
    {objs[i].key : i \in {x \in UsableIdx(objs) :
                             /\ FLt(R(0), objs[x].od.dimensions[1])
                             /\ FLt(R(0), objs[x].od.dimensions[2])}}

CloneName(asset, ix, iy) ==
    asset \o s_clone \o StrOfNat(ix) \o s_us \o StrOfNat(iy)

\* C12: for every cloneable group that is not degenerate the tiler inserts
\* one clone of every usable asset for every tile index (ix, iy) with
\* 0 <= ix < max(1, floor(scale_factor_x)) and 0 <= iy < max(1,
\* floor(scale_factor_y)); whatever the factors are, the tile (0, 0) is among
\* them, so after a run of the tiler the new scene holds the clone of index
\* (0, 0) of every such asset.
C12_OneClonePerTile ==
    TilerRan =>
        /\ last.ok
        /\ \A asset \in ToClone(AssetGroups, OrigObjs) :
              Cardinality({j \in 1..Len(NewObjs) :
                              NewObjs[j].key = CloneName(asset, 0, 0)}) = 1

\* C13: every clone of tile (ix, iy) lies at the original XY moved by
\* (ix * spacing_x, iy * spacing_y); the tile (0, 0) lies at the original
\* location of the group, nothing being scaled about the pivot.
C13_TilesAreTranslations ==
    TilerRan =>
        \A asset \in ToClone(AssetGroups, OrigObjs) :
            /\ HasKey(NewObjs, CloneName(asset, 0, 0))
            /\ LET pos == Lookup(OrigObjs, asset).placements[1].position
                   new == Lookup(NewObjs, CloneName(asset, 0, 0)).placements[1].position
               IN  new[1] = pos[1] /\ new[2] = pos[2]

\* the keys that the groups with the given Cloneable value name
GroupMentions(groups, cloneable) ==
    UNION {{groups[g].assets[a] : a \in 1..Len(groups[g].assets)} :
              g \in {x \in 1..Len(groups) : Get(groups[x], "Cloneable", "none") = cloneable}}

\* C14: in the wall rescaler, the placer and the tiler a named key that is
\* not in the original scene, or has no usable placements or dimensions,
\* makes the pass leave out that item only: the pass ends without an error,
\* keeps the new scene it found and processes every usable item that the
\* list names.  The wall list is made from the original scene, and for the
\* wall rescaler the conclusion is stated for every such list.
C14_SkipsOnlyTheItem ==
    [][/\ (/\ last'.pass = "wall_rescaler"
           /\ fs[new_scene_json].exists /\ fs[wall_list_json].exists)
          => /\ last'.ok
             /\ Kept(NewObjs, NewObjs')
             /\ \A g \in 1..Len(WallGroups) :
                   UsableKey(OrigObjs, WallGroups[g].wall_asset)
                      => \E j \in 1..Len(NewObjs') :
                            /\ j > Len(NewObjs)
                            /\ IsNameOf(NewObjs'[j].key, WallGroups[g].wall_asset \o s_scaled)
       /\ (/\ last'.pass = "placer"
           /\ fs[new_scene_json].exists /\ fs[asset_group_list_json].exists
           /\ \E k \in GroupMentions(AssetGroups, "false") : ~UsableKey(OrigObjs, k))
          => /\ last'.ok
             /\ Kept(NewObjs, NewObjs')
             /\ \A k \in GroupMentions(AssetGroups, "false") :
                   UsableKey(OrigObjs, k)
                      => \E j \in 1..Len(NewObjs') :
                            /\ j > Len(NewObjs)
                            /\ IsNameOf(NewObjs'[j].key, k \o s_placed)
       /\ (/\ last'.pass = "tiler"
           /\ fs[new_scene_json].exists /\ fs[asset_group_list_json].exists
           /\ \E k \in GroupMentions(AssetGroups, "true") : ~HasKey(OrigObjs, k))
          => /\ last'.ok
             /\ Kept(NewObjs, NewObjs')
             /\ \A k \in ToClone(AssetGroups, OrigObjs) :
                   HasKey(NewObjs', CloneName(k, 0, 0))]_vars

\* the original scene document has no top-level field "objects"
LacksObjects == fs[scene_json].exists /\ "objects" \notin DOMAIN fs[scene_json].data

\* C15: a scene document without the top-level field "objects" is read as a
\* document with an empty object mapping: a run of the floor rescaler, and a
\* run of the placer that finds its new scene and its group list, ends
\* without an error and writes the new scene, the floor rescaler one without
\* entries and the placer the one it found.
C15_MissingObjectsIsEmpty ==
    [][(/\ LacksObjects
        /\ \/ last'.pass = "floor"
           \/ /\ last'.pass = "placer"
              /\ fs[new_scene_json].exists /\ fs[asset_group_list_json].exists)
         => /\ last'.ok
            /\ fs'[new_scene_json].exists
            /\ last'.pass = "floor" => NewObjs' = <<>>
            /\ last'.pass = "placer" => NewObjs' = NewObjs]_vars

\* C15 as it is stated: the pass that loads a scene document without
\* "objects" fails and writes no new scene.
C15_AsStated ==
    [][(LacksObjects /\ last'.pass \in {"floor", "wall_rescaler", "placer"})
         => ~last'.ok /\ fs'[new_scene_json] = fs[new_scene_json]]_vars

C15_Witness ==
    /\ LacksObjects
    /\ last.pass = "placer" /\ last.ok
    /\ fs[new_scene_json].exists /\ NewObjs = <<>>

\* a record of a grouping response that has the four fields, a list under
\* "assets" and a boolean under "Cloneable"
WellFormed(group) ==
    /\ \A f \in {"id", "group_name", "assets", "Cloneable"} : f \in DOMAIN group.dict
    /\ group.assets_type = "list"
    /\ group.dict.Cloneable = "true" \/ group.dict.Cloneable = "false"

\* the well-formed records of a response, in the order of the response
WellFormedOf(parsed) ==
    LET ok == SelectSeq(parsed, WellFormed)
    IN  [i \in 1..Len(ok) |-> ok[i].dict]

\* C16: when the group extraction has an answer of the model that parses,
\* the asset_group_list it writes holds the well-formed records of the
\* answer, all of them and in the order of the answer, and no other record;
\* the pass ends without an error whatever records the answer holds.
C16_BadRecordsLeftOut ==
    [][(/\ last'.pass = "group_extraction"
        /\ extract_groups_calls_model(fs, scene_json, new_scene_json)
        /\ asked'.kind = "json")
         => /\ last'.ok
            /\ fs'[asset_group_list_json].exists
            /\ AssetGroups' = WellFormedOf(asked'.parsed)]_vars

\* an answer whose first record is malformed and whose second is well-formed
\* has been read
C16_Witness ==
    /\ last.pass = "group_extraction" /\ last.ok
    /\ asked.kind = "json" /\ Len(asked.parsed) = 2
    /\ ~WellFormed(asked.parsed[1]) /\ WellFormed(asked.parsed[2])
    /\ AssetGroups = <<asked.parsed[2].dict>>

\* C17: whatever passes have run, every entry of the new scene holds, in its
\* field identifier, the key under which it is stored.
C17_IdentifierIsKey ==
    fs[new_scene_json].exists =>
        \A j \in 1..Len(NewObjs) :
            /\ "identifier" \in DOMAIN NewObjs[j].od
            /\ NewObjs[j].od.identifier = NewObjs[j].key

\* the new scene holds a scaled floor and two copies of one asset, the second
\* under a key with a counter; the identifier of the original is another
C17_Witness ==
    /\ last.pass = "placer" /\ last.ok
    /\ HasKey(NewObjs, k_Room1 \o s_scaled)
    /\ HasKey(NewObjs, k_Lamp \o s_placed)
    /\ HasKey(NewObjs, NthName(k_Lamp \o s_placed, 1))
    /\ Lookup(OrigObjs, k_Lamp).identifier = k_Lamp
    /\ Lookup(NewObjs, NthName(k_Lamp \o s_placed, 1)).identifier
          = NthName(k_Lamp \o s_placed, 1)

\* C18: for each floor the floor rescaler multiplies the width, the length
\* and the height by scale_factor (the height is 0.0 for a floor that has
\* two dimension components), puts the XY at pivot + (original XY - pivot) *
\* scale_factor and the Z at original_z - (scaled_height - original_height).
C18_FloorTransform ==
    (last.pass = "floor" /\ last.ok) =>
        \A i \in UsableFloors(OrigObjs) :
            LET key == OrigObjs[i].key \o s_scaled
                dims == Dims3(OrigObjs[i].od.dimensions)
                pos == Pad3(OrigObjs[i].od.placements[1].position)
                pivot == UnionCentre(OrigObjs)
            IN  /\ HasKey(NewObjs, key)
                /\ Lookup(NewObjs, key).dimensions
                      = <<FMul(dims[1], last.sf), FMul(dims[2], last.sf), FMul(dims[3], last.sf)>>
                /\ Lookup(NewObjs, key).placements[1].position
                      = <<ScaledAbout(pivot[1], pos[1], last.sf),
                          ScaledAbout(pivot[2], pos[2], last.sf),
                          FSub(pos[3], FSub(FMul(dims[3], last.sf), dims[3]))>>

\* a floor of height 1 at Z = 0 has been scaled by 2: it is 2 high at Z = -1
C18_Witness ==
    /\ last.pass = "floor" /\ last.ok /\ last.sf = R(2)
    /\ Keys(OrigObjs) = {k_Room1, k_Room2, k_Sofa}
    /\ Lookup(NewObjs, k_Room1 \o s_scaled).dimensions = <<R(6), R(8), R(2)>>
    /\ Lookup(NewObjs, k_Room1 \o s_scaled).placements[1].position[3] = R(0 - 1)

\* C19: the wall rescaler, the placer and the tiler take the same floor
\* anchor: for the new scene and the original scene of any state, the anchor
\* entry and the pair (floor_new_z, floor_orig_z) that each of the three
\* passes takes are the same.
C19_SameAnchor ==
    (fs[new_scene_json].exists /\ fs[asset_group_list_json].exists) =>
        LET placer == placer_find_anchor(NewObjs, OrigObjs, 1)
        IN  /\ walls_find_anchor(NewObjs, OrigObjs, 1) = placer
            /\ tiler_find_anchor(NewObjs, OrigObjs, 1) = placer

\* the entries of the new scene that are the scaled copy of a floor of the
\* original scene
ScaledFloors(new, orig) ==
    {j \in 1..Len(new) : \E i \in UsableFloors(orig) : new[j].key = orig[i].key \o s_scaled}

Groups == group_walls(wall_items_of(OrigObjs, 1), 1, <<>>)

\* the place in the scene of the object with the given key
IndexOf(objs, k) == CHOOSE i \in 1..Len(objs) : objs[i].key = k

\* the XY positions of two objects of the scene are at most 0.1 apart
Close(objs, i, j) ==
    LET p == objs[i].od.placements[1].position
        q == objs[j].od.placements[1].position
        dx == FSub(p[1], q[1])
        dy == FSub(p[2], q[2])
    IN  FLe(FAdd(FMul(dx, dx), FMul(dy, dy)), Q(1, 100))

\* the groups G are the greedy grouping of the objects I of the scene: every
\* object of I is in exactly one group; a first member has no object of I
\* before it in the scene that is close to it; any other member has an
\* earlier member of its group close to it and no earlier object close to
\* it in a group before its own
GreedyGrouping(G, objs, I) ==
    LET At(g, j) == IndexOf(objs, G[g][j].key)
        Places == {<<g, j>> : g \in 1..Len(G), j \in 1..MaxWallObjs}
        P == {p \in Places : p[2] <= Len(G[p[1]])}
    IN  /\ \A g \in 1..Len(G) : Len(G[g]) >= 1
        /\ \A p \in P : HasKey(objs, G[p[1]][p[2]].key) /\ At(p[1], p[2]) \in I
        /\ \A i \in I : Cardinality({p \in P : At(p[1], p[2]) = i}) = 1
        /\ \A p \in P :
              LET g == p[1]
                  j == p[2]
                  i == At(g, j)
              IN  /\ j = 1 => \A e \in I : e < i => ~Close(objs, e, i)
                  /\ j > 1 => /\ \E m \in 1..(j - 1) : Close(objs, At(g, m), i)
                              /\ \A q \in P :
                                    (q[1] < g /\ At(q[1], q[2]) < i)
                                       => ~Close(objs, At(q[1], q[2]), i)
                  /\ j > 1 => At(g, j - 1) < i
                  /\ (j = 1 /\ g > 1) => At(g - 1, 1) < i

\* C21: the wall items of the wall grouper are the objects that carry
\* wall_type, carry no floor_description and have a placement; its groups
\* are the greedy grouping of them in scene order with the distance 0.1, and
\* the wall list it writes has one record for each group.
C21_GreedyWallGroups ==
    (last.pass = "wall_grouper" /\ last.ok) =>
        /\ GreedyGrouping(Groups, OrigObjs,
               {i \in 1..Len(OrigObjs) :
                   /\ "wall_type" \in DOMAIN OrigObjs[i].od
                   /\ "floor_description" \notin DOMAIN OrigObjs[i].od
                   /\ Len(Get(OrigObjs[i].od, "placements", <<>>)) >= 1})
        /\ Len(WallGroups) = Len(Groups)

\* C21 as it is stated: the wall items are exactly the objects that carry
\* wall_type and no floor_description.
C21_AsStated ==
    (last.pass = "wall_grouper" /\ last.ok) =>
        /\ GreedyGrouping(Groups, OrigObjs,
               {i \in 1..Len(OrigObjs) :
                   /\ "wall_type" \in DOMAIN OrigObjs[i].od
                   /\ "floor_description" \notin DOMAIN OrigObjs[i].od})
        /\ Len(WallGroups) = Len(Groups)

\* the third wall is within 0.1 of the first and of the second, which are
\* further apart: it has joined the group of the first, and there are two
\* groups where the transitive closure has one
C21_Witness ==
    /\ last.pass = "wall_grouper" /\ last.ok
    /\ Keys(OrigObjs) = {k_WallA, k_WallB, k_WallC, k_WallD}
    /\ Len(Groups) = 2
    /\ Len(Groups[1]) = 2 /\ Groups[1][2].key = k_WallC
    /\ Groups[2][1].key = k_WallB
    /\ Len(WallGroups) = 2

\* the distance along one axis from the coordinate x to the interval [lo, hi]
AxisGap(x, lo, hi) == IF FLt(x, lo) THEN FSub(lo, x) ELSE IF FLt(hi, x) THEN FSub(x, hi) ELSE R(0)

\* the wall parts of the scene that lie within 0.3 of the union of the
\* rectangles [x, x + width] x [y, y + length] of the walls with indices W
PartsNear(objs, W) ==
    LET X(i) == objs[i].od.placements[1].position[1]
        Y(i) == objs[i].od.placements[1].position[2]
        minx == Least({X(i) : i \in W})
        maxx == Greatest({FAdd(X(i), objs[i].od.dimensions[1]) : i \in W})
        miny == Least({Y(i) : i \in W})
        maxy == Greatest({FAdd(Y(i), objs[i].od.dimensions[2]) : i \in W})
    IN  {objs[i].key : i \in {j \in 1..Len(objs) :
            /\ "wall_type" \notin DOMAIN objs[j].od
            /\ "floor_description" \notin DOMAIN objs[j].od
            /\ Get(objs[j].od, "object_type", "none") = "wall_part"
            /\ Len(Get(objs[j].od, "placements", <<>>)) >= 1
            /\ LET gx == AxisGap(X(j), minx, maxx)
                   gy == AxisGap(Y(j), miny, maxy)
               IN  FLe(FAdd(FMul(gx, gx), FMul(gy, gy)), Q(9, 100))}}

\* C22: the wall list holds one WallGroup for each group of walls, in the
\* order of the groups; its wall_asset and wall_type are the key and the
\* wall_type of the first wall of the group, and its assets are, each once,
\* the objects without wall_type and without floor_description whose
\* object_type is "wall_part" and whose XY position is at most 0.3 from the
\* union bounding box of the walls of the group.
C22_OneWallGroupPerCluster ==
    (last.pass = "wall_grouper" /\ last.ok) =>
        /\ Len(WallGroups) = Len(Groups)
        /\ \A g \in 1..Len(Groups) :
              LET W == {IndexOf(OrigObjs, Groups[g][j].key) : j \in 1..Len(Groups[g])}
                  first == CHOOSE i \in W : \A k \in W : i <= k
                  assets == WallGroups[g].assets
              IN  /\ WallGroups[g].wall_asset = OrigObjs[first].key
                  /\ WallGroups[g].wall_type = OrigObjs[first].od.wall_type
                  /\ {assets[a] : a \in 1..Len(assets)} = PartsNear(OrigObjs, W)
                  /\ Len(assets) = Cardinality(PartsNear(OrigObjs, W))

\* a wall with a part 0.25 beside its box, a part far away and an object at
\* the wall that is no wall part: the part beside it is the only asset
C22_Witness ==
    /\ last.pass = "wall_grouper" /\ last.ok
    /\ Keys(OrigObjs) = {k_WallA, k_PartNear, k_PartFar, k_Shelf}
    /\ Len(WallGroups) = 1
    /\ WallGroups[1].wall_asset = k_WallA
    /\ WallGroups[1].assets = <<k_PartNear>>

\* the bounding box of the assets of a group that the original scene holds
\* is less than 1e-6 wide or long, or the scene holds none of them
Degenerate(group, objs) ==
    LET F == {a \in 1..Len(group.assets) : HasKey(objs, group.assets[a])}
        od(a) == Lookup(objs, group.assets[a])
        pos(a) == Pad3(od(a).placements[1].position)
        X(a) == IF Len(od(a).placements) >= 1 THEN pos(a)[1] ELSE R(0)
        Y(a) == IF Len(od(a).placements) >= 1 THEN pos(a)[2] ELSE R(0)
        W(a) == od(a).dimensions[1]
        L(a) == IF Len(od(a).dimensions) >= 2 THEN od(a).dimensions[2] ELSE R(0)
        tiny == Q(1, 1000000)
    IN  \/ F = {}
        \/ FLt(FSub(Greatest({FAdd(X(a), W(a)) : a \in F}), Least({X(a) : a \in F})), tiny)
        \/ FLt(FSub(Greatest({FAdd(Y(a), L(a)) : a \in F}), Least({Y(a) : a \in F})), tiny)

CloneableGroups == {g \in 1..Len(AssetGroups) : Get(AssetGroups[g], "Cloneable", "false") = "true"}

\* C23: the tiler passes over a cloneable group that is degenerate and goes
\* on: after a run on a list with such a group the pass has ended without an
\* error, the new scene holds no clone of an asset of a degenerate group,
\* and it holds the clone of tile (0, 0) of every usable asset of the other
\* cloneable groups.
C23_DegenerateGroupSkipped ==
    (/\ TilerRan
     /\ \E g \in CloneableGroups : Degenerate(AssetGroups[g], OrigObjs))
       => /\ last.ok
          /\ \A g \in CloneableGroups :
                LET assets == AssetGroups[g].assets
                IN  IF Degenerate(AssetGroups[g], OrigObjs)
                    THEN \A a \in 1..Len(assets), j \in 1..Len(NewObjs) :
                            ~StartsWith(NewObjs[j].key, assets[a] \o s_clone)
                    ELSE \A a \in 1..Len(assets) :
                            UsableKey(OrigObjs, assets[a])
                               => HasKey(NewObjs, CloneName(assets[a], 0, 0))

\* the keys of the manifest that the group extraction builds in this state
Manifest ==
    LET m == leftover_assets_of(OrigObjs, NewObjs, 1)
    IN  {m[i].key : i \in 1..Len(m)}

\* the new scene holds the object under its own key or under a key that
\* starts with <key>_scaled
InNewScene(new, key) ==
    \E j \in 1..Len(new) :
        \/ new[j].key = key
        \/ /\ Len(new[j].key) >= Len(key) + Len(s_scaled)
           /\ SubSeq(new[j].key, 1, Len(key) + Len(s_scaled)) = key \o s_scaled

\* C24: the manifest holds exactly the objects of the original scene that
\* are not in the new scene under their own key or under a key starting
\* with <key>_scaled, carry neither wall_type nor floor_description, and
\* have a placement.
C24_LeftoverManifest ==
    fs[new_scene_json].exists =>
        Manifest = {OrigObjs[i].key : i \in {j \in 1..Len(OrigObjs) :
                        /\ ~InNewScene(NewObjs, OrigObjs[j].key)
                        /\ "wall_type" \notin DOMAIN OrigObjs[j].od
                        /\ "floor_description" \notin DOMAIN OrigObjs[j].od
                        /\ Len(Get(OrigObjs[j].od, "placements", <<>>)) >= 1}}

\* C24 as it is stated, without the condition on the placements
C24_AsStated ==
    fs[new_scene_json].exists =>
        Manifest = {OrigObjs[i].key : i \in {j \in 1..Len(OrigObjs) :
                        /\ ~InNewScene(NewObjs, OrigObjs[j].key)
                        /\ "wall_type" \notin DOMAIN OrigObjs[j].od
                        /\ "floor_description" \notin DOMAIN OrigObjs[j].od}}

\* an unlabelled object that the floor rescaler has scaled, an object
\* labelled as a floor that it has not, and an asset: the group extraction
\* has run and the asset alone is in the manifest
C24_Witness ==
    /\ last.pass = "group_extraction" /\ last.ok
    /\ Keys(OrigObjs) = {k_Room2, k_Sofa, k_Rug}
    /\ HasKey(NewObjs, k_Room2 \o s_scaled)
    /\ "floor_description" \notin DOMAIN Lookup(OrigObjs, k_Room2)
    /\ Manifest = {k_Sofa}

\* the new scene holds no scaled floor, or its first scaled floor is at the Z
\* of the floor it was made from
AnchorUnmoved(new, orig) ==
    LET F == ScaledFloors(new, orig)
    IN  F = {} \/
        LET j == CHOOSE x \in F : \A y \in F : x <= y
        IN  new[j].od.placements[1].position[3]
              = Lookup(orig, SubSeq(new[j].key, 1, Len(new[j].key) - Len(s_scaled)))
                    .placements[1].position[3]

C26_NewYHasNoEffect ==
    \A pass \in running, new_Y \in NewYs :
        \A raw_response \in Responses(ManifestKeys(fs)),
           iter_order \in Orders(part_keys(OrigObjs)) :
            RunPass(pass, fs, user, raw_response, iter_order)
              = RunPass(pass, fs, [user EXCEPT !.new_Y = new_Y], raw_response, iter_order)

\* the floor rescaler has run for the target length 10 and has left the new
\* scene, with a scaled floor, that it leaves for the target length 8
C26_Witness ==
    /\ last.pass = "floor" /\ last.ok
    /\ user.new_Y = R(10) /\ R(8) \in NewYs
    /\ HasKey(NewObjs, k_Room1 \o s_scaled)
    /\ fs = add_resized_floor(InitFiles(fs[scene_json].data), scene_json, user.blend_name,
                              user.new_X, R(8), new_scene_json).files

\* the keys that a step appends to the new scene
Added == {NewObjs'[j].key : j \in (Len(NewObjs) + 1)..Len(NewObjs')}

\* the usable assets named by a record whose Cloneable is the given value
AssetsOf(cloneable) ==
    UNION {{AssetGroups[g].assets[a] : a \in {x \in 1..Len(AssetGroups[g].assets) :
                                                 UsableKey(OrigObjs, AssetGroups[g].assets[x])}} :
              g \in {x \in 1..Len(AssetGroups) :
                        Get(AssetGroups[x], "Cloneable", "none") = cloneable}}

\* C27: every record of the asset group list is acted on by exactly one of
\* the placer and the tiler when its Cloneable is a boolean, and by neither
\* when it has none: a run of the placer appends a placed copy of the usable
\* assets of the records with Cloneable false, and of no other record, and no
\* clone; a run of the tiler ends normally, appends a clone of the usable
\* assets of positive width and length of the records with Cloneable true,
\* of no other record, and no placed copy.
C27_ExactlyOnePassActs ==
    [][fs[asset_group_list_json].exists =>
          /\ (last'.pass = "placer" /\ last'.ok) =>
                /\ \A a \in AssetsOf("false") : \E k \in Added : IsNameOf(k, a \o s_placed)
                /\ \A k \in Added : \E a \in AssetsOf("false") : IsNameOf(k, a \o s_placed)
          /\ (last'.pass = "tiler" /\ fs[new_scene_json].exists) =>
                /\ last'.ok
                /\ \A a \in AssetsOf("true") \cap ToClone(AssetGroups, OrigObjs) :
                      CloneName(a, 0, 0) \in Added
                /\ \A k \in Added : \E a \in AssetsOf("true") : StartsWith(k, a \o s_clone)
      ]_vars

\* the total floor width that main reads before it asks for the new width
MainTotalX == total_floor_X(OrigObjs, user.blend_name, 1)

\* C28: in a run of the pipeline the factor by which the floor rescaler has
\* scaled the floors is the factor that main hands to the wall rescaler, the
\* placer and the tiler, new_X divided by the total floor width, whatever the
\* original scene is: main has such a factor (the total width is not zero)
\* and the floor rescaler has used it.
C28_OneFactorInARun ==
    (/\ "floor" \in {started[i] : i \in 1..Len(started)}
     /\ last.pass = "floor" /\ last.ok)
       => /\ MainTotalX # R(0)
          /\ last.sf = FDiv(user.new_X, MainTotalX)

\* the walls that joined a group of the wall grouper after its first member
Joined ==
    UNION {{Groups[g][j].key : j \in 2..Len(Groups[g])} : g \in 1..Len(Groups)}

\* C29: a wall that joined an existing cluster is nowhere in the wall list,
\* neither as wall_asset nor among the assets of a record; the new scene
\* holds no scaled copy of it, whatever passes have run; and the manifest of
\* the group extraction does not hold it.
C29_JoinedWallsAreDropped ==
    \A w \in Joined :
        /\ fs[wall_list_json].exists =>
              \A r \in 1..Len(WallGroups) :
                  /\ WallGroups[r].wall_asset # w
                  /\ \A a \in 1..Len(WallGroups[r].assets) : WallGroups[r].assets[a] # w
        /\ fs[new_scene_json].exists =>
              \A j \in 1..Len(NewObjs) : ~StartsWith(NewObjs[j].key, w \o s_scaled)
        /\ w \notin Manifest

\* the wall rescaler has run on the wall list of a scene whose second wall
\* joined the cluster of the first, after the floor rescaler
C29_Witness ==
    /\ last.pass = "wall_rescaler"
    /\ fs[wall_list_json].exists /\ fs[new_scene_json].exists
    /\ Joined = {k_Wall2}
    /\ Len(WallGroups) = 1 /\ WallGroups[1].wall_asset = k_Wall1

\* the asset keys named by the records of the asset group list
ListedAssets ==
    UNION {{AssetGroups[g].assets[a] : a \in 1..Len(AssetGroups[g].assets)} :
              g \in 1..Len(AssetGroups)}

\* the new scene holds a scaled entry of the key, and a placed copy or a
\* clone of it
ScaledAndPlaced(new, key) ==
    /\ \E j \in 1..Len(new) : StartsWith(new[j].key, key \o s_scaled)
    /\ \E j \in 1..Len(new) : \/ StartsWith(new[j].key, key \o s_placed)
                              \/ StartsWith(new[j].key, key \o s_clone)

\* C30: in a run of the passes in the order of main, where the wall rescaler
\* runs before the group extraction, a placer or a tiler that starts from an
\* asset group list whose asset keys are all in the leftover manifest leaves
\* a new scene in which no key of the original scene has both a <key>_scaled
\* entry and a <key>_placed or <key>_clone_* entry.
C30_ScaledIsNotPlacedAgain ==
    [][(/\ last'.pass \in {"placer", "tiler"}
        /\ fs[asset_group_list_json].exists
        /\ ListedAssets \subseteq Manifest)
          => \A i \in 1..Len(OrigObjs) : ~ScaledAndPlaced(NewObjs', OrigObjs[i].key)
      ]_vars

\* the passes have run up to the placer on a scene with a floor that only
\* its scaled entry keeps out of the manifest and a sofa; the list names
\* the sofa, and the new scene holds the scaled floor and the placed sofa
C30_Witness ==
    /\ last.pass = "placer" /\ last.ok /\ pc = 6
    /\ Keys(OrigObjs) = {k_Room2, k_Sofa}
    /\ ListedAssets = {k_Sofa}
    /\ Keys(NewObjs) = {k_Room2 \o s_scaled, k_Sofa \o s_placed}

====
